---- MODULE Spec2Model ----
(***************************************************************************)
(* Verification model of cli-play's splash-to-menu transition engine:      *)
(* rain.CellGrid, rain.Column and transition.Model (internal/rain,         *)
(* internal/transition).  Runes are modelled by their code points, times   *)
(* in units of 1/20 s and row fractions in units of 1/20 row, so that      *)
(* Accumulator += Speed * dt is exact integer arithmetic.                  *)
(***************************************************************************)
EXTENDS Integers, Sequences, FiniteSets, TLC

VARIABLES width, height, phase, grid, columns, charPool, splashCells,
          menuCells, dissolvedCount, splashLookup, depositedCount,
          depositOrder, phaseElapsed, draining, done,
          lastMsg, cmd, pending, fault, ticks, position, color,
          active, store, snake, mines, puzzle, tiles, call

vars == <<width, height, phase, grid, columns, charPool, splashCells,
          menuCells, dissolvedCount, splashLookup, depositedCount,
          depositOrder, phaseElapsed, draining, done,
          lastMsg, cmd, pending, fault, ticks, position, color,
          active, store, snake, mines, puzzle, tiles, call>>

\* the state outside the transition controller and its rendering: the app's
\* active screen, the score store, the games, and the last call made on them
games == <<store, snake, mines, puzzle, tiles, call>>
apps == <<active, store, snake, mines, puzzle, tiles, call>>

-----------------------------------------------------------------------------
(* Bounds of the model *)

\* screen of the scaled-down scenario (columns x rows), and the width of
\* the one-column screen
ScreenW == 2
ScreenH == 4
NarrowW == 1
\* largest raw wall-clock delta between two ticks, in 1/20 s
MaxRawDt == 3
\* the phase timer and the tick counter saturate here
MaxElapsed == 2
MaxTicks == 3
\* largest width and height of the grids driven through Set and Resize
GridMax == 2
\* screen height of the single column followed from spawn to death
ColumnH == 6
\* largest width and height of the small screens texts are laid out on
LayoutMax == 3
\* number of glyphs of the long one-line target text
LongTotal == 121

\* largest score value handed to the score store
MaxScore == 2

\* the scaled-down Snake board (BoardWidth x BoardHeight), and the score at
\* which the snake stops eating
SnakeW == 4
SnakeH == 3
MaxSnakeScore == 1

\* the scaled-down Minesweeper difficulty (rows, columns, mines), and the
\* largest number of flags set at a time
MineRows == 2
MineCols == 4
MineCount == 2
MaxFlags == 1

\* number of trailing cells of the solved Fifteen Puzzle board that a
\* shuffle permutes, and the largest number of moves played on a board
ShuffledCells == 4
MaxPuzzleMoves == 4

\* number of tile values (2, 4, ...) on the 2048 boards a game is set up
\* with, and the number of moves made on a board
TileKinds == 2
MaxTileMoves == 1


\* longest text laid out by a computePositions call
LayoutLen == 3

-----------------------------------------------------------------------------
(* Program constants *)

PhaseDissolve == 0
PhaseReveal == 1
PhaseDrain == 2
PhaseDone == 3

CellEmpty == 0
CellSplash == 1
CellRain == 2
CellDissolving == 3
CellDeposited == 4

\* dt is capped at 0.1 s = 2/20 s
DtCap == 2
\* one whole row of accumulated movement: 1.0 = 20/20 row
AccOne == 20
\* minimum trail length of a spawned column
MinTrailFloor == 4
\* reveal spreads the deposits over 60 ticks
RevealTicks == 60
\* column speeds are drawn from [8.0, 25.0) rows per second
SpeedLimit == 25
\* column speeds in rows per second, inside [8.0, 25.0)
Speeds == {10, 20}
\* the fastest whole speed a column can be drawn with
FastSpeed == SpeedLimit - 1

\* FadeStep runs from 0 (head) to 100 (tail); positions are counted in
\* hundredths
FadeMax == 100

\* runes used by the texts
NL == 10
SP == 32

Min(a, b) == IF a < b THEN a ELSE b
Max(a, b) == IF a > b THEN a ELSE b

\* Go's integer division truncates toward zero
GoDiv(a, b) == IF a >= 0 THEN a \div b ELSE -((-a) \div b)

-----------------------------------------------------------------------------
(* The app's screens, and the score store and the games before any of them
   is used *)

screenSplash == 0
screenTransition == 1
screenMenu == 2

\* the app's routing of a message to the transition: once the transition
\* reports Done() the menu screen is active
Routed(a, isDone) ==
    IF a = screenTransition /\ isDone THEN screenMenu ELSE a

\* a call on a store or a game: its name, its arguments and what it returned
Call(op, arg, ret) == [op |-> op, arg |-> arg, ret |-> ret]

\* scores.GameScores with no entry: a nil *Entry is the empty set, an entry
\* e is {e}
EmptyScores ==
    [Yahtzee |-> {}, Blackjack |-> {}, Wordle |-> {}, TwoFortyEight |-> {}]

\* the zero values of the Game structs
ZeroSnake ==
    [Snake |-> <<>>, Dir |-> 0, Food |-> [X |-> 0, Y |-> 0], Score |-> 0,
     State |-> 0, Width |-> 0, Height |-> 0]

ZeroMines ==
    [Grid |-> <<>>, Rows |-> 0, Cols |-> 0, TotalMines |-> 0,
     FlagsUsed |-> 0, CellsRevealed |-> 0, State |-> 0, FirstClick |-> FALSE]

ZeroPuzzle ==
    [Board |-> [r \in 0..3 |-> [c \in 0..3 |-> 0]], EmptyRow |-> 0,
     EmptyCol |-> 0, Moves |-> 0, Won |-> FALSE]

ZeroTiles ==
    [Board |-> [r \in 0..3 |-> [c \in 0..3 |-> 0]], Score |-> 0,
     Won |-> FALSE, Over |-> FALSE, Continued |-> FALSE]

GamesIdle ==
    /\ store = EmptyScores
    /\ snake = ZeroSnake
    /\ mines = ZeroMines
    /\ puzzle = ZeroPuzzle
    /\ tiles = ZeroTiles
    /\ call = Call("none", <<>>, FALSE)

-----------------------------------------------------------------------------
(* rain.Cell and rain.CellGrid *)

Cell(ch, st, fade, target) ==
    [Char |-> ch, State |-> st, FadeStep |-> fade, TargetChar |-> target]

EmptyCell == Cell(0, CellEmpty, 0, 0)

allocCells(w, h) == [y \in 0..(h - 1) |-> [x \in 0..(w - 1) |-> EmptyCell]]

NewCellGrid(w, h) == [Width |-> w, Height |-> h, Cells |-> allocCells(w, h)]

Get(g, x, y) ==
    IF x < 0 \/ x >= g.Width \/ y < 0 \/ y >= g.Height
    THEN EmptyCell
    ELSE g.Cells[y][x]

\* Set with the two dimensions exchanged in its bounds check
SetSwappedBounds(g, x, y, c) ==
    IF x < 0 \/ x >= g.Height \/ y < 0 \/ y >= g.Width
    THEN g
    ELSE [g EXCEPT !.Cells[y][x] = c]

Set(g, x, y, c) ==
    IF x < 0 \/ x >= g.Width \/ y < 0 \/ y >= g.Height
    THEN g
    ELSE [g EXCEPT !.Cells[y][x] = c]

\* Resize that reallocates and copies nothing
ResizeFresh(g, w, h) == NewCellGrid(w, h)

Resize(g, w, h) ==
    LET copyW == IF w < g.Width THEN w ELSE g.Width
        copyH == IF h < g.Height THEN h ELSE g.Height
    IN [Width |-> w, Height |-> h,
        Cells |-> [y \in 0..(h - 1) |-> [x \in 0..(w - 1) |->
                     IF y < copyH /\ x < copyW THEN g.Cells[y][x]
                     ELSE EmptyCell]]]

\* cells written by the probes
ProbeCells == {EmptyCell, Cell(88, CellDeposited, 0, 88), Cell(48, CellRain, 50, 0)}

-----------------------------------------------------------------------------
(* Text layout: computePositions, visualWidth, runeWidth *)

runeWidth(ch) ==
    CASE ch >= 9600 /\ ch <= 9631 -> 1
      [] ch >= 9472 /\ ch <= 9599 -> 1
      [] ch >= 65281 /\ ch <= 65376 -> 2
      [] ch >= 65377 /\ ch <= 65500 -> 1
      [] ch >= 11904 /\ ch <= 40959 -> 2
      [] OTHER -> 1

\* the sum of the rune widths, summed half by half
RECURSIVE visualWidth(_)
visualWidth(s) ==
    IF s = <<>> THEN 0
    ELSE IF Len(s) = 1 THEN runeWidth(s[1])
    ELSE visualWidth(SubSeq(s, 1, Len(s) \div 2))
           + visualWidth(SubSeq(s, Len(s) \div 2 + 1, Len(s)))

\* strings.Split(text, "\n")
RECURSIVE SplitLines(_)
SplitLines(text) ==
    IF \A i \in 1..Len(text) : text[i] # NL
    THEN <<text>>
    ELSE LET i == CHOOSE k \in 1..Len(text) :
                     text[k] = NL /\ \A j \in 1..(k - 1) : text[j] # NL
         IN <<SubSeq(text, 1, i - 1)>> \o
            SplitLines(SubSeq(text, i + 1, Len(text)))

RECURSIVE MaxLineWidth(_)
MaxLineWidth(lines) ==
    IF lines = <<>> THEN 0
    ELSE Max(visualWidth(Head(lines)), MaxLineWidth(Tail(lines)))

CellPos(x, y, ch) == [X |-> x, Y |-> y, Char |-> ch]

\* the inner loop of computePositions advancing the cursor by one column
\* for every rune, whatever its width
RECURSIVE LineCellsNarrow(_, _, _, _)
LineCellsNarrow(line, col, offsetX, y) ==
    IF line = <<>> THEN <<>>
    ELSE IF Len(line) = 1
    THEN IF line[1] # SP THEN <<CellPos(offsetX + col, y, line[1])>>
         ELSE <<>>
    ELSE LET left == SubSeq(line, 1, Len(line) \div 2)
         IN LineCellsNarrow(left, col, offsetX, y) \o
            LineCellsNarrow(SubSeq(line, Len(line) \div 2 + 1, Len(line)),
                            col + Len(left), offsetX, y)

\* the inner loop of computePositions over one line
\* (col is the column reached so far; the line is walked half by half)
RECURSIVE LineCells(_, _, _, _)
LineCells(line, col, offsetX, y) ==
    IF line = <<>> THEN <<>>
    ELSE IF Len(line) = 1
    THEN IF line[1] # SP THEN <<CellPos(offsetX + col, y, line[1])>>
         ELSE <<>>
    ELSE LET left == SubSeq(line, 1, Len(line) \div 2)
         IN LineCells(left, col, offsetX, y) \o
            LineCells(SubSeq(line, Len(line) \div 2 + 1, Len(line)),
                      col + visualWidth(left), offsetX, y)

RECURSIVE RowsCells(_, _, _, _)
RowsCells(lines, row, offsetX, offsetY) ==
    IF lines = <<>> THEN <<>>
    ELSE LineCells(Head(lines), 0, offsetX, offsetY + row) \o
         RowsCells(Tail(lines), row + 1, offsetX, offsetY)

\* computePositions without the centring offsets
computePositionsTopLeft(text, w, h) == RowsCells(SplitLines(text), 0, 0, 0)

computePositions(text, w, h) ==
    LET lines == SplitLines(text)
        maxW == MaxLineWidth(lines)
        offsetX == GoDiv(w - maxW, 2)
        offsetY == GoDiv(h - Len(lines), 2)
    IN RowsCells(lines, 0, offsetX, offsetY)

-----------------------------------------------------------------------------
(* Trail colours: trailStops, TrailColor, lerp8, hexColor *)

\* the gradient stops, their positions in hundredths
trailStops ==
    <<[pos |-> 0, r |-> 220, g |-> 255, b |-> 220],
      [pos |-> 15, r |-> 0, g |-> 230, b |-> 50],
      [pos |-> 50, r |-> 0, g |-> 150, b |-> 30],
      [pos |-> 100, r |-> 0, g |-> 60, b |-> 15]>>

\* lerp8 interpolating from b to a
lerp8Swapped(a, b, num, den) == {(b * (den - num) + a * num) \div den}

\* lerp8 at t = num / den: uint8 truncates float64(a)*(1-t) + float64(b)*t.
\* The float64 sum is within rounding error of the exact value, so where the
\* exact value is a whole number the sum may fall just below it and the
\* truncation then yields one less (fused or separate multiply-add decide)
lerp8(a, b, num, den) ==
    LET n == a * (den - num) + b * num
        q == n \div den
    IN IF n % den = 0 /\ a # b /\ num # 0 /\ num # den /\ q > 0
       THEN {q, q - 1}
       ELSE {q}

HexDigits ==
    <<"0", "1", "2", "3", "4", "5", "6", "7",
      "8", "9", "A", "B", "C", "D", "E", "F">>

\* fmt.Sprintf("#%02X%02X%02X", r, g, b), as a sequence of characters
hexColor(r, g, b) ==
    <<"#", HexDigits[(r \div 16) + 1], HexDigits[(r % 16) + 1],
           HexDigits[(g \div 16) + 1], HexDigits[(g % 16) + 1],
           HexDigits[(b \div 16) + 1], HexDigits[(b % 16) + 1]>>

\* TrailColor(pct / 100): the colours the builds can produce
TrailColor(pct) ==
    IF pct <= 0 THEN {<<"#", "D", "C", "F", "F", "D", "C">>}
    ELSE IF pct >= FadeMax THEN {<<"#", "0", "0", "3", "C", "0", "F">>}
    ELSE LET i == CHOOSE k \in 1..(Len(trailStops) - 1) :
                     /\ pct >= trailStops[k].pos
                     /\ pct <= trailStops[k + 1].pos
                     /\ \A j \in 1..(k - 1) :
                           ~(pct >= trailStops[j].pos
                                /\ pct <= trailStops[j + 1].pos)
             lo == trailStops[i]
             hi == trailStops[i + 1]
             span == hi.pos - lo.pos
         IN IF span = 0 THEN {hexColor(lo.r, lo.g, lo.b)}
            ELSE {hexColor(r, g, b) :
                    r \in lerp8(lo.r, hi.r, pct - lo.pos, span),
                    g \in lerp8(lo.g, hi.g, pct - lo.pos, span),
                    b \in lerp8(lo.b, hi.b, pct - lo.pos, span)}

-----------------------------------------------------------------------------
(* rain.Column *)

TrailChar(y, ch) == [Y |-> y, Char |-> ch]

\* rand.IntN(n) panics when n <= 0: SpawnColumn draws IntN(half + 1) and
\* IntN(maxTrail - minTrail + 1)
SpawnPanics(screenHeight) ==
    LET half == GoDiv(screenHeight, 2)
        minTrail == Max(GoDiv(screenHeight, 3), MinTrailFloor)
        maxTrail == screenHeight
    IN half + 1 <= 0 \/ maxTrail - minTrail + 1 <= 0

\* the random draws of one SpawnColumn call: <<startY, trailLen, speed>>
SpawnDraws(screenHeight) ==
    LET half == GoDiv(screenHeight, 2)
        minTrail == Max(GoDiv(screenHeight, 3), MinTrailFloor)
        maxTrail == screenHeight
    IN {<<-k, minTrail + t, sp>> : k \in 0..half,
                                  t \in 0..(maxTrail - minTrail),
                                  sp \in Speeds}

SpawnColumn(x, draw) ==
    [X |-> x, Trail |-> <<>>, MaxTrailLen |-> draw[2], Speed |-> draw[3],
     Accumulator |-> 0, HeadY |-> draw[1], Draining |-> FALSE]

\* advance: rnd holds the glyphs pool.Random() returns, in order
RECURSIVE advance(_, _, _)
advance(c, screenHeight, rnd) ==
    IF c.Accumulator < AccOne THEN c
    ELSE LET y == c.HeadY
             onScreen == y >= 0 /\ y < screenHeight
             c1 == [c EXCEPT !.Accumulator = @ - AccOne,
                             !.Trail = IF onScreen
                                       THEN Append(@, TrailChar(y, Head(rnd)))
                                       ELSE @,
                             !.HeadY = @ + 1]
         IN IF c1.HeadY >= screenHeight
            THEN [c1 EXCEPT !.Draining = TRUE]
            ELSE advance(c1, screenHeight, IF onScreen THEN Tail(rnd) ELSE rnd)

\* drain that keeps moving the head while it removes the tail
drainAdvancing(c) ==
    IF c.Accumulator >= AccOne /\ Len(c.Trail) > 0
    THEN [c EXCEPT !.Accumulator = @ - AccOne, !.Trail = Tail(@),
                   !.HeadY = @ + 1]
    ELSE c

\* drain that removes the newest trail character
drainNewest(c) ==
    IF c.Accumulator >= AccOne /\ Len(c.Trail) > 0
    THEN [c EXCEPT !.Accumulator = @ - AccOne,
                   !.Trail = SubSeq(@, 1, Len(@) - 1)]
    ELSE c

RECURSIVE drain(_)
drain(c) ==
    IF c.Accumulator >= AccOne /\ Len(c.Trail) > 0
    THEN drain([c EXCEPT !.Accumulator = @ - AccOne, !.Trail = Tail(@)])
    ELSE c

\* trimTrail that never drops a character
trimTrailNever(c) == c

\* trimTrail that keeps the two newest characters only
trimTrailShort(c) ==
    IF Len(c.Trail) > 2
    THEN [c EXCEPT !.Trail = SubSeq(@, Len(@) - 1, Len(@))]
    ELSE c

trimTrail(c) ==
    IF Len(c.Trail) > c.MaxTrailLen
    THEN [c EXCEPT !.Trail = SubSeq(@, Len(@) - c.MaxTrailLen + 1, Len(@))]
    ELSE c

\* mutate: mut[i] is <<g>> when trail character i is replaced by the pool
\* glyph g, and <<>> when it is left alone
mutate(c, mut) ==
    [c EXCEPT !.Trail = [i \in 1..Len(@) |->
        IF mut[i] = <<>> THEN @[i] ELSE TrailChar(@[i].Y, mut[i][1])]]

Update(c, dt, screenHeight, rnd, mut) ==
    LET c1 == [c EXCEPT !.Accumulator = @ + c.Speed * dt]
    IN IF c1.Draining
       THEN drain(c1)
       ELSE mutate(trimTrail(advance(c1, screenHeight, rnd)), mut)

\* IsDead looking at the trail alone
IsDeadNoTrail(c) == Len(c.Trail) = 0

IsDead(c) == c.Draining /\ Len(c.Trail) = 0

\* most rows one Update can advance: an accumulator below one row plus a
\* speed below SpeedLimit over the capped dt
MaxAdvance == (AccOne + DtCap * SpeedLimit - 1) \div AccOne

\* every outcome of Column.Update over the random draws of the pool
UpdateOutcomes(c, dt, screenHeight, pool) ==
    LET c1 == [c EXCEPT !.Accumulator = @ + c.Speed * dt]
        grown == {trimTrail(advance(c1, screenHeight, rnd)) :
                     rnd \in [1..MaxAdvance -> pool]}
    IN IF c.Draining
       THEN {Update(c, dt, screenHeight, <<>>, <<>>)}
       ELSE UNION {{Update(c, dt, screenHeight, rnd, mut) :
                      rnd \in [1..MaxAdvance -> pool],
                      mut \in [1..Len(t.Trail) ->
                                  {<<>>} \cup {<<g>> : g \in pool}]} :
                   t \in grown}

-----------------------------------------------------------------------------
(* transition.Model *)

\* updateColumns: every joint outcome of col.Update over the live columns
RECURSIVE updateColumns(_, _, _, _)
updateColumns(cols, dt, screenHeight, pool) ==
    IF cols = <<>> THEN {<<>>}
    ELSE {<<u>> \o rest :
            u \in UpdateOutcomes(Head(cols), dt, screenHeight, pool),
            rest \in updateColumns(Tail(cols), dt, screenHeight, pool)}

removeDeadColumns(cols) == SelectSeq(cols, LAMBDA c : ~IsDead(c))

\* spawnColumns taking every position for free
OccupiedNone(cols) == {}

Occupied(cols) == {cols[i].X : i \in DOMAIN cols}

\* spawnColumns with its loop stopping one column short of the width
SpawnSetsShort(cols, w) ==
    SUBSET {x \in 0..(w - 2) : x \notin Occupied(cols)}

\* the x positions spawnColumns may pick: any set of unoccupied columns
\* (one Bernoulli trial per unoccupied x)
SpawnSets(cols, w) == SUBSET {x \in 0..(w - 1) : x \notin Occupied(cols)}

\* the columns appended for the picked positions, in increasing x
RECURSIVE Spawned(_, _, _)
Spawned(xs, screenHeight, draws) ==
    IF xs = {} THEN <<>>
    ELSE LET x == CHOOSE a \in xs : \A b \in xs : a <= b
         IN <<SpawnColumn(x, draws[x])>> \o
            Spawned(xs \ {x}, screenHeight, draws)

spawnColumns(cols, xs, screenHeight, draws) ==
    cols \o Spawned(xs, screenHeight, draws)

\* applyRainToGrid without its check for deposited cells
SkipNothing(existing) == FALSE

\* applyRainToGrid never overwrites a deposited cell
SkipDeposited(existing) == existing.State = CellDeposited

\* the second loop of applyRainToGrid over one column's trail
RECURSIVE WriteTrail(_, _, _)
WriteTrail(g, col, i) ==
    IF i > Len(col.Trail) THEN g
    ELSE LET tc == col.Trail[i]
             trailLen == Len(col.Trail)
             existing == Get(g, col.X, tc.Y)
             posFromHead == trailLen - 1 - (i - 1)
             fadePct == IF trailLen > 1
                        THEN (posFromHead * 100) \div (trailLen - 1)
                        ELSE 0
             state == IF existing.State = CellSplash
                      THEN CellDissolving ELSE CellRain
         IN IF SkipDeposited(existing)
            THEN WriteTrail(g, col, i + 1)
            ELSE WriteTrail(Set(g, col.X, tc.Y, Cell(tc.Char, state, fadePct, 0)),
                            col, i + 1)

RECURSIVE WriteColumns(_, _)
WriteColumns(g, cols) ==
    IF cols = <<>> THEN g
    ELSE WriteColumns(WriteTrail(g, Head(cols), 1), Tail(cols))

\* the first loop of applyRainToGrid clearing nothing
ClearRainNever(g) == g

\* the first loop of applyRainToGrid
ClearRain(g) ==
    [g EXCEPT !.Cells = [y \in DOMAIN @ |-> [x \in DOMAIN @[y] |->
        IF @[y][x].State = CellRain \/ @[y][x].State = CellDissolving
        THEN EmptyCell ELSE @[y][x]]]]

applyRainToGrid(g, cols) == WriteColumns(ClearRain(g), cols)

\* dissolve: the loops over the columns and their trail characters; st is
\* the pair of splashLookup and dissolvedCount
\* dissolve counting a source cell again each time a trail lies over it
RECURSIVE dissolveTrailRecounting(_, _, _)
dissolveTrailRecounting(st, col, i) ==
    IF i > Len(col.Trail) THEN st
    ELSE LET key == <<col.X, col.Trail[i].Y>>
         IN IF key \in st.lookup
            THEN dissolveTrailRecounting([lookup |-> st.lookup,
                                          count |-> st.count + 1], col, i + 1)
            ELSE dissolveTrailRecounting(st, col, i + 1)

RECURSIVE dissolveTrail(_, _, _)
dissolveTrail(st, col, i) ==
    IF i > Len(col.Trail) THEN st
    ELSE LET key == <<col.X, col.Trail[i].Y>>
         IN IF key \in st.lookup
            THEN dissolveTrail([lookup |-> st.lookup \ {key},
                                count |-> st.count + 1], col, i + 1)
            ELSE dissolveTrail(st, col, i + 1)

RECURSIVE dissolve(_, _)
dissolve(st, cols) ==
    IF cols = <<>> THEN st
    ELSE dissolve(dissolveTrail(st, Head(cols), 1), Tail(cols))

\* the batch size without its floor of one deposit per tick
depositsPerTickUnfloored(total) == total \div RevealTicks

depositsPerTick(total) == Max(1, total \div RevealTicks)

\* reveal: st is the pair of the grid and depositedCount; i counts the loop
RECURSIVE revealLoop(_, _, _, _, _)
revealLoop(st, cells, order, batch, i) ==
    IF i < batch /\ st.count < Len(cells)
    THEN LET cp == cells[order[st.count + 1]]
         IN revealLoop([g |-> Set(st.g, cp.X, cp.Y,
                                  Cell(cp.Char, CellDeposited, 0, cp.Char)),
                        count |-> st.count + 1],
                       cells, order, batch, i + 1)
    ELSE st

reveal(st, cells, order) ==
    IF Len(cells) = 0 THEN st
    ELSE revealLoop(st, cells, order, depositsPerTick(Len(cells)), 0)

\* New: the grid with the splash text painted on it
RECURSIVE PaintSplash(_, _)
PaintSplash(g, cells) ==
    IF cells = <<>> THEN g
    ELSE PaintSplash(Set(g, Head(cells).X, Head(cells).Y,
                         Cell(Head(cells).Char, CellSplash, 0, 0)),
                     Tail(cells))

\* a shuffle that may repeat an index and leave another one out
ShufflesRepeating(n) == [1..n -> 1..n]

\* rand.Shuffle yields any permutation of the indices
Shuffles(n) ==
    {p \in [1..n -> 1..n] : \A i, j \in 1..n : p[i] = p[j] => i = j}

\* the state New(w, h, splashText, menuText) returns, after Init() has
\* scheduled the first tick
New(w, h, splashText, menuText, pool) ==
    /\ width = w
    /\ height = h
    /\ phase = PhaseDissolve
    /\ splashCells = computePositions(splashText, w, h)
    /\ menuCells = computePositions(menuText, w, h)
    /\ grid = PaintSplash(NewCellGrid(w, h), splashCells)
    /\ columns = <<>>
    /\ charPool = pool
    /\ splashLookup = {<<splashCells[i].X, splashCells[i].Y>> :
                          i \in DOMAIN splashCells}
    /\ depositOrder \in Shuffles(Len(menuCells))
    /\ dissolvedCount = 0
    /\ depositedCount = 0
    /\ phaseElapsed = 0
    /\ draining = FALSE
    /\ done = FALSE
    /\ lastMsg = "init"
    /\ cmd = "tick"
    /\ pending = 1
    /\ fault = FALSE
    /\ ticks = 0
    /\ position = 0
    /\ color = <<>>
    /\ active = screenTransition
    /\ GamesIdle

\* the scaled scenario: "HI" dissolves and "B" over "YE" is revealed on the
\* ScreenW x ScreenH screen; on the one-column screen "H" over "I" dissolves
\* and "B" over "Y" is revealed
SourceHI == <<72, 73>>
TargetBYE == <<66, NL, 89, 69>>
SourceCol == <<72, NL, 73>>
TargetCol == <<66, NL, 89>>
TargetBYECol == <<66, NL, 89, NL, 69>>
OneGlyphPool == {65382}

Init == New(NarrowW, ScreenH, SourceCol, TargetCol, OneGlyphPool)

\* "H" over "I" dissolves and "B" over "Y" over "E" is revealed
InitColumn == New(NarrowW, ScreenH, SourceCol, TargetBYECol, OneGlyphPool)

InitScenario == New(ScreenW, ScreenH, SourceHI, TargetBYE, OneGlyphPool)

\* Dissolve handing over to Drain, leaving Reveal out
DissolveSkipsReveal == PhaseDrain

\* the phase that follows Dissolve once every source cell is dissolved
DissolveNext == PhaseReveal

\* the state a tick leaves behind: cols are the live columns after update,
\* removal and spawning, g is the grid after applyRainToGrid
tickState(dt, cols, g) ==
    LET el == Min(phaseElapsed + dt, MaxElapsed)
        base == [phase |-> phase, grid |-> g, columns |-> cols,
                 lookup |-> splashLookup, dissolved |-> dissolvedCount,
                 deposited |-> depositedCount, elapsed |-> el,
                 draining |-> draining, done |-> done, cmd |-> "tick"]
    IN CASE phase = PhaseDissolve ->
              LET d == dissolve([lookup |-> splashLookup,
                                 count |-> dissolvedCount], cols)
                  over == d.count >= Len(splashCells)
              IN [base EXCEPT !.lookup = d.lookup, !.dissolved = d.count,
                              !.phase = IF over THEN DissolveNext ELSE @,
                              !.elapsed = IF over THEN 0 ELSE @]
         [] phase = PhaseReveal ->
              LET r == reveal([g |-> g, count |-> depositedCount],
                              menuCells, depositOrder)
                  over == r.count >= Len(menuCells)
              IN [base EXCEPT !.grid = r.g, !.deposited = r.count,
                              !.phase = IF over THEN PhaseDrain ELSE @,
                              !.draining = IF over THEN TRUE ELSE @,
                              !.elapsed = IF over THEN 0 ELSE @]
         [] phase = PhaseDrain ->
              IF Len(cols) = 0
              THEN [base EXCEPT !.phase = PhaseDone, !.done = TRUE,
                                !.cmd = "none"]
              ELSE base
         [] OTHER -> [base EXCEPT !.done = TRUE, !.cmd = "none"]

\* a tick that calls spawnColumns whether or not the controller is draining
SpawnChoicesAlways(alive) == SpawnSets(alive, width)

\* spawnColumns is called only while the controller is not draining
SpawnChoices(alive) == IF draining THEN {{}} ELSE SpawnSets(alive, width)

\* the tickMsg handler when spawnColumns picks the positions xs; dt is the
\* capped wall-clock delta
TickSpawning(xs) ==
    /\ ~fault /\ cmd # "quit" /\ pending > 0
    /\ \E dt \in {IF rawDt > DtCap THEN DtCap ELSE rawDt :
                     rawDt \in 1..MaxRawDt} :
       \E updated \in updateColumns(columns, dt, height, charPool) :
       \E alive \in {removeDeadColumns(updated)} :
          /\ xs \in SpawnChoices(alive)
          /\ IF xs # {} /\ SpawnPanics(height)
             THEN /\ fault' = TRUE
                  /\ lastMsg' = "tick"
                  /\ UNCHANGED <<width, height, phase, grid, columns,
                                 charPool, splashCells, menuCells,
                                 dissolvedCount, splashLookup,
                                 depositedCount, depositOrder, phaseElapsed,
                                 draining, done, cmd, pending, ticks,
                                 position, color, apps>>
             ELSE \E draws \in [xs -> SpawnDraws(height)] :
                  \E cols \in {spawnColumns(alive, xs, height, draws)} :
                  \E g \in {applyRainToGrid(grid, cols)} :
                  \E n \in {tickState(dt, cols, g)} :
                     /\ phase' = n.phase
                     /\ grid' = n.grid
                     /\ columns' = n.columns
                     /\ splashLookup' = n.lookup
                     /\ dissolvedCount' = n.dissolved
                     /\ depositedCount' = n.deposited
                     /\ phaseElapsed' = n.elapsed
                     /\ draining' = n.draining
                     /\ done' = n.done
                     /\ cmd' = n.cmd
                     /\ pending' = IF n.cmd = "tick" THEN pending
                                   ELSE pending - 1
                     /\ lastMsg' = "tick"
                     /\ ticks' = Min(ticks + 1, MaxTicks)
                     /\ fault' = FALSE
                     /\ active' = Routed(active, n.done)
                     /\ UNCHANGED <<width, height, charPool, splashCells,
                                    menuCells, depositOrder, position,
                                    color, games>>

Tick == \E xs \in SUBSET (0..(width - 1)) : TickSpawning(xs)

\* a key handler that sets the completion flag and leaves the phase alone
KeyInputFlagOnly ==
    /\ ~fault /\ cmd # "quit"
    /\ done' = TRUE
    /\ cmd' = "none"
    /\ lastMsg' = "key"
    /\ UNCHANGED <<width, height, phase, grid, columns, charPool,
                   splashCells, menuCells, dissolvedCount, splashLookup,
                   depositedCount, depositOrder, phaseElapsed, draining,
                   pending, fault, ticks, position, color, apps>>

\* tea.KeyMsg other than ctrl+c: skip the animation
KeyInput ==
    /\ ~fault /\ cmd # "quit"
    /\ done' = TRUE
    /\ phase' = PhaseDone
    /\ cmd' = "none"
    /\ lastMsg' = "key"
    /\ active' = Routed(active, TRUE)
    /\ UNCHANGED <<width, height, grid, columns, charPool, splashCells,
                   menuCells, dissolvedCount, splashLookup, depositedCount,
                   depositOrder, phaseElapsed, draining, pending, fault,
                   ticks, position, color, games>>

\* tea.KeyMsg "ctrl+c": the model is returned as it is, with tea.Quit
\* ctrl+c absorbed as a skip like any other key
CtrlCAbsorbed ==
    /\ ~fault /\ cmd # "quit"
    /\ done' = TRUE
    /\ phase' = PhaseDone
    /\ cmd' = "none"
    /\ lastMsg' = "ctrl+c"
    /\ UNCHANGED <<width, height, grid, columns, charPool, splashCells,
                   menuCells, dissolvedCount, splashLookup, depositedCount,
                   depositOrder, phaseElapsed, draining, pending, fault,
                   ticks, position, color, apps>>

CtrlC ==
    /\ ~fault /\ cmd # "quit"
    /\ cmd' = "quit"
    /\ lastMsg' = "ctrl+c"
    /\ UNCHANGED <<width, height, phase, grid, columns, charPool,
                   splashCells, menuCells, dissolvedCount, splashLookup,
                   depositedCount, depositOrder, phaseElapsed, draining,
                   done, pending, fault, ticks, position, color, apps>>

\* the sizes a tea.WindowSizeMsg carries
ResizeDims == {<<NarrowW, ScreenH>>, <<NarrowW - 1, ScreenH>>,
               <<NarrowW, ScreenH - 1>>}

\* a window size message that drops the live columns
WindowSizeMsgDroppingColumns(dims) ==
    /\ ~fault /\ cmd # "quit"
    /\ \E d \in dims :
         /\ width' = d[1]
         /\ height' = d[2]
         /\ grid' = Resize(grid, d[1], d[2])
    /\ columns' = <<>>
    /\ cmd' = "none"
    /\ lastMsg' = "resize"
    /\ UNCHANGED <<phase, charPool, splashCells, menuCells,
                   dissolvedCount, splashLookup, depositedCount,
                   depositOrder, phaseElapsed, draining, done, pending,
                   fault, ticks, position, color, apps>>

\* a window size message that starts a tick chain of its own
WindowSizeMsgTicking(dims) ==
    /\ ~fault /\ cmd # "quit"
    /\ \E d \in dims :
         /\ width' = d[1]
         /\ height' = d[2]
         /\ grid' = Resize(grid, d[1], d[2])
    /\ cmd' = "tick"
    /\ pending' = pending + 1
    /\ lastMsg' = "resize"
    /\ UNCHANGED <<phase, columns, charPool, splashCells, menuCells,
                   dissolvedCount, splashLookup, depositedCount,
                   depositOrder, phaseElapsed, draining, done,
                   fault, ticks, position, color, apps>>

\* tea.WindowSizeMsg carrying one of the sizes dims
WindowSizeMsg(dims) ==
    /\ ~fault /\ cmd # "quit"
    /\ \E d \in dims :
         /\ width' = d[1]
         /\ height' = d[2]
         /\ grid' = Resize(grid, d[1], d[2])
    /\ cmd' = "none"
    /\ lastMsg' = "resize"
    /\ UNCHANGED <<phase, columns, charPool, splashCells, menuCells,
                   dissolvedCount, splashLookup, depositedCount,
                   depositOrder, phaseElapsed, draining, done, pending,
                   fault, ticks, position, color, apps>>

WindowSize == WindowSizeMsg(ResizeDims)

Next == Tick \/ KeyInput \/ CtrlC \/ WindowSize

Spec == Init /\ [][Next]_vars

\* runs driven by ticks alone, on the ScreenW x ScreenH scenario
NextTicks == Tick

SpecTicks == InitScenario /\ [][NextTicks]_vars

\* a tick that spawns a column at x: each Bernoulli trial succeeds with
\* probability SpawnRate, so a trial offered again and again succeeds
SpawnAt(x) == \E xs \in SUBSET (0..(width - 1)) : x \in xs /\ TickSpawning(xs)

\* the tick chain keeps firing, and spawning is fair at every x
FairTicks ==
    /\ InitColumn /\ [][NextTicks]_vars
    /\ WF_vars(Tick)
    /\ \A x \in 0..(NarrowW - 1) : SF_vars(SpawnAt(x))

\* Done reports the completion flag
Done == done

\* degenerate constructions: a zero width or height with any text, and
\* empty texts on any screen
InitDegenerate ==
    \E w \in {0, NarrowW}, h \in {0, ScreenH},
       src \in {<<>>, SourceCol}, tgt \in {<<>>, TargetCol} :
        /\ w = 0 \/ h = 0 \/ (src = <<>> /\ tgt = <<>>)
        /\ New(w, h, src, tgt, OneGlyphPool)

SpecDegenerate == InitDegenerate /\ [][Next]_vars

\* empty source and target text, driven by ticks alone
InitEmpty ==
    \E w \in {0, ScreenW}, h \in {0, ScreenH} :
        New(w, h, <<>>, <<>>, OneGlyphPool)

SpecEmpty == InitEmpty /\ [][NextTicks]_vars

\* CellGrid driven through its own interface: a Set call at any coordinate
\* in or around the grid
GridSet ==
    /\ \E x \in -1..GridMax, y \in -1..GridMax, c \in ProbeCells :
          grid' = Set(grid, x, y, c)
    /\ lastMsg' = "set"
    /\ UNCHANGED <<width, height, phase, columns, charPool, splashCells,
                   menuCells, dissolvedCount, splashLookup, depositedCount,
                   depositOrder, phaseElapsed, draining, done, cmd, pending,
                   fault, ticks, position, color, apps>>

\* a resize to any size up to GridMax x GridMax
GridResize == WindowSizeMsg((0..GridMax) \X (0..GridMax))

InitGrid ==
    \E w \in 0..GridMax, h \in 0..GridMax :
        New(w, h, <<>>, <<>>, OneGlyphPool)

NextGrid == GridSet \/ GridResize

SpecGrid == InitGrid /\ [][NextGrid]_vars

\* one rain.Column followed through its life: SpawnColumn, then Update
\* calls with the capped dt until the column is dead
ColumnSpawn ==
    /\ columns = <<>> /\ ~SpawnPanics(height)
    /\ \E draw \in SpawnDraws(height) : columns' = <<SpawnColumn(0, draw)>>
    /\ lastMsg' = "spawn"
    /\ UNCHANGED <<width, height, phase, grid, charPool, splashCells,
                   menuCells, dissolvedCount, splashLookup, depositedCount,
                   depositOrder, phaseElapsed, draining, done, cmd, pending,
                   fault, ticks, position, color, apps>>

ColumnUpdate ==
    /\ columns # <<>> /\ ~IsDead(columns[1])
    /\ \E dt \in 1..DtCap :
       \E u \in UpdateOutcomes(columns[1], dt, height, charPool) :
          columns' = <<u>>
    /\ lastMsg' = "update"
    /\ UNCHANGED <<width, height, phase, grid, charPool, splashCells,
                   menuCells, dissolvedCount, splashLookup, depositedCount,
                   depositOrder, phaseElapsed, draining, done, cmd, pending,
                   fault, ticks, position, color, apps>>

InitRain == New(NarrowW, ColumnH, <<>>, <<>>, OneGlyphPool)

NextRain == ColumnSpawn \/ ColumnUpdate

SpecRain == InitRain /\ [][NextRain]_vars

\* constructions over several screens and source texts: the 20 x 6 screen
\* of the scenario and every screen up to LayoutMax x LayoutMax; "HI",
\* "H I", "H" over "I", " H", a fullwidth letter followed by "I", and the
\* empty text; the target is "BYE"
ConstructDims == {<<20, 6>>} \cup ((0..LayoutMax) \X (0..LayoutMax))

ConstructTexts ==
    {SourceHI, <<72, SP, 73>>, SourceCol, <<SP, 72>>, <<65313, 73>>, <<>>}

InitConstruct ==
    \E d \in ConstructDims, src \in ConstructTexts :
        New(d[1], d[2], src, <<66, 89, 69>>, OneGlyphPool)

\* the constructed controller receives key input only
NextKeys == KeyInput \/ CtrlC

SpecConstruct == InitConstruct /\ [][NextKeys]_vars

\* New when rand.Shuffle happens to leave the deposit order as it was
NewInOrder(w, h, splashText, menuText, pool) ==
    /\ width = w
    /\ height = h
    /\ phase = PhaseDissolve
    /\ splashCells = computePositions(splashText, w, h)
    /\ menuCells = computePositions(menuText, w, h)
    /\ grid = PaintSplash(NewCellGrid(w, h), splashCells)
    /\ columns = <<>>
    /\ charPool = pool
    /\ splashLookup = {<<splashCells[i].X, splashCells[i].Y>> :
                          i \in DOMAIN splashCells}
    /\ depositOrder = [i \in 1..Len(menuCells) |-> i]
    /\ dissolvedCount = 0
    /\ depositedCount = 0
    /\ phaseElapsed = 0
    /\ draining = FALSE
    /\ done = FALSE
    /\ lastMsg = "init"
    /\ cmd = "tick"
    /\ pending = 1
    /\ fault = FALSE
    /\ ticks = 0
    /\ position = 0
    /\ color = <<>>
    /\ active = screenTransition
    /\ GamesIdle

\* a one-line target of LongTotal glyphs, enough for a batch of two
\* deposits per tick
LongTarget == [i \in 1..LongTotal |-> 66]

\* the one-column scenario, and the long target behind an empty source
InitReveal ==
    \/ InitColumn
    \/ NewInOrder(NarrowW, ScreenH, <<>>, LongTarget, OneGlyphPool)

SpecReveal == InitReveal /\ [][NextTicks]_vars

\* rainCellStyle(fadePct): View colours a rain cell by its FadeStep
RainCellStyle ==
    /\ \E fadePct \in 0..FadeMax :
          /\ position' = fadePct
          /\ color' \in TrailColor(fadePct)
    /\ lastMsg' = "view"
    /\ UNCHANGED <<width, height, phase, grid, columns, charPool,
                   splashCells, menuCells, dissolvedCount, splashLookup,
                   depositedCount, depositOrder, phaseElapsed, draining,
                   done, cmd, pending, fault, ticks, apps>>

InitView == New(0, 0, <<>>, <<>>, OneGlyphPool)

NextView == RainCellStyle

SpecView == InitView /\ [][NextView]_vars

-----------------------------------------------------------------------------
(* scores.Store: Get, Update, and the calls the app makes from extractScore *)

\* scores.Entry (the date is the day of the call and is left out)
Entry(value) == [Value |-> value]

\* Store.Get: the entry of a game, nil (the empty set) for any other name
StoreGet(s, game) ==
    CASE game = "yahtzee" -> s.Yahtzee
      [] game = "blackjack" -> s.Blackjack
      [] game = "wordle" -> s.Wordle
      [] game = "2048" -> s.TwoFortyEight
      [] OTHER -> {}

\* the switch of Store.Update that assigns the entry
StoreAssign(s, game, entry) ==
    CASE game = "yahtzee" -> [s EXCEPT !.Yahtzee = {entry}]
      [] game = "blackjack" -> [s EXCEPT !.Blackjack = {entry}]
      [] game = "wordle" -> [s EXCEPT !.Wordle = {entry}]
      [] game = "2048" -> [s EXCEPT !.TwoFortyEight = {entry}]
      [] OTHER -> s

\* the early returns of Store.Update: an entry exists and value does not
\* beat it
NotBetter(current, value, lowerIsBetter) ==
    \E e \in current : \/ lowerIsBetter /\ value >= e.Value
                       \/ ~lowerIsBetter /\ value <= e.Value

\* the (game, lowerIsBetter) pairs extractScore passes to Store.Update
ScoreCalls ==
    {<<"yahtzee", FALSE>>, <<"blackjack", FALSE>>, <<"wordle", TRUE>>,
     <<"2048", FALSE>>, <<"hangman", TRUE>>, <<"tictactoe", FALSE>>,
     <<"mastermind", TRUE>>, <<"memory", TRUE>>, <<"connectfour", FALSE>>,
     <<"fifteenpuzzle", TRUE>>}

\* Store.Update(game, value, lowerIsBetter)
StoreUpdate ==
    /\ \E c \in ScoreCalls, value \in 0..MaxScore :
         IF NotBetter(StoreGet(store, c[1]), value, c[2])
         THEN /\ store' = store
              /\ call' = Call("Update", <<c[1], value, c[2]>>, FALSE)
         ELSE /\ store' = StoreAssign(store, c[1], Entry(value))
              /\ call' = Call("Update", <<c[1], value, c[2]>>, TRUE)
    /\ UNCHANGED <<width, height, phase, grid, columns, charPool, splashCells,
                   menuCells, dissolvedCount, splashLookup, depositedCount,
                   depositOrder, phaseElapsed, draining, done, lastMsg, cmd,
                   pending, fault, ticks, position, color, active, snake,
                   mines, puzzle, tiles>>

\* a store as Load returns it when no score file exists
InitScores == New(0, 0, <<>>, <<>>, OneGlyphPool)

NextScores == StoreUpdate

SpecScores == InitScores /\ [][NextScores]_vars

-----------------------------------------------------------------------------
(* snake.Game *)

DirUp == 0
DirDown == 1
DirLeft == 2
DirRight == 3
Directions == {DirUp, DirDown, DirLeft, DirRight}
\* no direction: no Tick has moved the snake yet
NoDir == DirRight + 1

StatePlaying == 0
StateGameOver == 1

Point(x, y) == [X |-> x, Y |-> y]

\* the direction SetDirection refuses to leave for d
Opposite(d) ==
    CASE d = DirUp -> DirDown
      [] d = DirDown -> DirUp
      [] d = DirLeft -> DirRight
      [] d = DirRight -> DirLeft

\* the cell next to p in direction d (the switch of Tick)
Step(p, d) ==
    CASE d = DirUp -> Point(p.X, p.Y - 1)
      [] d = DirDown -> Point(p.X, p.Y + 1)
      [] d = DirLeft -> Point(p.X - 1, p.Y)
      [] d = DirRight -> Point(p.X + 1, p.Y)

\* spawnFood: the cells the food may land on, none when the board is full
\* (the food then stays where it is)
FoodCells(g) ==
    LET empty == {p \in {Point(x, y) : x \in 0..(g.Width - 1),
                                       y \in 0..(g.Height - 1)} :
                    \A i \in DOMAIN g.Snake : g.Snake[i] # p}
    IN IF empty = {} THEN {g.Food} ELSE empty

\* NewGame before its spawnFood: the snake in the centre, length 3, moving
\* right
CentredSnake ==
    [Snake |-> <<Point(GoDiv(SnakeW, 2), GoDiv(SnakeH, 2)),
                 Point(GoDiv(SnakeW, 2) - 1, GoDiv(SnakeH, 2)),
                 Point(GoDiv(SnakeW, 2) - 2, GoDiv(SnakeH, 2))>>,
     Dir |-> DirRight, Food |-> Point(0, 0), Score |-> 0,
     State |-> StatePlaying, Width |-> SnakeW, Height |-> SnakeH]

\* SetDirection accepting every direction
SetDirectionAlways(g, d) == [g EXCEPT !.Dir = d]

\* Game.SetDirection
SetDirection(g, d) ==
    IF g.State # StatePlaying THEN g
    ELSE IF g.Dir = Opposite(d) THEN g
    ELSE [g EXCEPT !.Dir = d]

\* isSelfCollision: p is on a segment other than the tail
isSelfCollision(g, p) ==
    \E i \in 1..(Len(g.Snake) - 1) : g.Snake[i] = p

\* Game.Tick after its state check, the food of a spawnFood it makes landing
\* on food
SnakeTickAlways(g, food) ==
    LET next == Step(g.Snake[1], g.Dir)
    IN IF \/ next.X < 0 \/ next.X >= g.Width
          \/ next.Y < 0 \/ next.Y >= g.Height
       THEN [g EXCEPT !.State = StateGameOver]
       ELSE IF isSelfCollision(g, next)
       THEN [g EXCEPT !.State = StateGameOver]
       ELSE IF next = g.Food
       THEN [g EXCEPT !.Snake = <<next>> \o g.Snake, !.Score = g.Score + 1,
                      !.Food = food]
       ELSE [g EXCEPT !.Snake = <<next>> \o SubSeq(g.Snake, 1,
                                                   Len(g.Snake) - 1)]

\* Game.Tick
SnakeTick(g, food) ==
    IF g.State # StatePlaying THEN g ELSE SnakeTickAlways(g, food)

\* the direction of the previous Tick's move, carried by every call record
\* of the game
LastMove == IF call.op \in {"NewGame", "Reset", "none"} THEN NoDir ELSE call.ret

GamesBut(v) ==
    /\ UNCHANGED <<width, height, phase, grid, columns, charPool, splashCells,
                   menuCells, dissolvedCount, splashLookup, depositedCount,
                   depositOrder, phaseElapsed, draining, done, lastMsg, cmd,
                   pending, fault, ticks, position, color, active>>
    /\ v # "store" => UNCHANGED store
    /\ v # "snake" => UNCHANGED snake
    /\ v # "mines" => UNCHANGED mines
    /\ v # "puzzle" => UNCHANGED puzzle
    /\ v # "tiles" => UNCHANGED tiles

\* NewGame()
SnakeNewGame ==
    /\ call.op = "none"
    /\ \E food \in FoodCells(CentredSnake) :
         snake' = [CentredSnake EXCEPT !.Food = food]
    /\ call' = Call("NewGame", <<>>, NoDir)
    /\ GamesBut("snake")

\* g.SetDirection(d)
SnakeSetDirection ==
    /\ call.op # "none"
    /\ \E d \in Directions :
         /\ snake' = SetDirection(snake, d)
         /\ call' = Call("SetDirection", <<d>>, LastMove)
    /\ GamesBut("snake")

\* g.Tick(); the snake stops eating at MaxSnakeScore
SnakeTicks ==
    /\ call.op # "none"
    /\ \/ snake.State # StatePlaying
       \/ Step(snake.Snake[1], snake.Dir) # snake.Food
       \/ snake.Score < MaxSnakeScore
    /\ \E food \in FoodCells([snake EXCEPT
                                !.Snake = <<snake.Food>> \o snake.Snake]) :
         snake' = SnakeTick(snake, food)
    /\ call' = Call("Tick", <<>>, IF snake'.Snake # snake.Snake
                                  THEN snake.Dir ELSE LastMove)
    /\ GamesBut("snake")

\* g.Reset(): NewGame and one more spawnFood
SnakeReset ==
    /\ call.op # "none"
    /\ \E food \in FoodCells(CentredSnake) :
         snake' = [CentredSnake EXCEPT !.Food = food]
    /\ call' = Call("Reset", <<>>, NoDir)
    /\ GamesBut("snake")

InitSnake == New(0, 0, <<>>, <<>>, OneGlyphPool)

NextSnake == SnakeNewGame \/ SnakeSetDirection \/ SnakeTicks \/ SnakeReset

SpecSnake == InitSnake /\ [][NextSnake]_vars

-----------------------------------------------------------------------------
(* minesweeper.Game; Grid[r][c] of the code is Grid[r + 1][c + 1] here *)

Hidden == 0
Revealed == 1
Flagged == 2

Playing == 0
Won == 1
Lost == 2

MineCell(mine, state, adjacent) ==
    [Mine |-> mine, State |-> state, Adjacent |-> adjacent]

CellAt(g, r, c) == g.Grid[r + 1][c + 1]

inBounds(g, row, col) == row >= 0 /\ row < g.Rows /\ col >= 0 /\ col < g.Cols

\* the coordinates (row, col) of the grid
GridCells(g) == (0..(g.Rows - 1)) \X (0..(g.Cols - 1))

neighbors(g, row, col) ==
    {n \in GridCells(g) : /\ n # <<row, col>>
                          /\ n[1] - row \in {-1, 0, 1}
                          /\ n[2] - col \in {-1, 0, 1}}

\* the cells placeMines keeps free of mines, without the neighbours
excludedClickOnly(g, safeRow, safeCol) == {<<safeRow, safeCol>>}

\* the cells placeMines keeps free of mines
excluded(g, safeRow, safeCol) ==
    neighbors(g, safeRow, safeCol) \cup {<<safeRow, safeCol>>}

\* computeAdjacent on a grid whose mines are the cells of ms
computeAdjacent(g, ms) ==
    [g EXCEPT !.Grid =
       [r \in 1..g.Rows |-> [c \in 1..g.Cols |->
          IF <<r - 1, c - 1>> \in ms
          THEN [g.Grid[r][c] EXCEPT !.Mine = TRUE]
          ELSE [g.Grid[r][c] EXCEPT
                  !.Adjacent = Cardinality(neighbors(g, r - 1, c - 1) \cap ms)]]]]

\* placeMines: the grids its random draws can produce; it draws until
\* TotalMines cells outside the excluded ones hold a mine
placeMines(g, safeRow, safeCol) ==
    {computeAdjacent(g, ms) :
       ms \in {s \in SUBSET (GridCells(g) \ excluded(g, safeRow, safeCol)) :
                 Cardinality(s) = g.TotalMines}}

\* floodReveal: the cells it reveals, from the queue of cells still to visit
RECURSIVE floodCells(_, _, _)
floodCells(g, queue, seen) ==
    IF queue = {} THEN seen
    ELSE LET p == CHOOSE q \in queue : TRUE
             cell == CellAt(g, p[1], p[2])
         IN IF p \in seen \/ cell.State # Hidden \/ cell.Mine
            THEN floodCells(g, queue \ {p}, seen)
            ELSE floodCells(g,
                     (queue \ {p}) \cup
                       (IF cell.Adjacent = 0
                        THEN {n \in neighbors(g, p[1], p[2]) :
                                CellAt(g, n[1], n[2]).State = Hidden}
                        ELSE {}),
                     seen \cup {p})

floodReveal(g, row, col) ==
    LET cells == floodCells(g, {<<row, col>>}, {})
    IN [g EXCEPT !.Grid = [r \in 1..g.Rows |-> [c \in 1..g.Cols |->
                              IF <<r - 1, c - 1>> \in cells
                              THEN [g.Grid[r][c] EXCEPT !.State = Revealed]
                              ELSE g.Grid[r][c]]],
                 !.CellsRevealed = g.CellsRevealed + Cardinality(cells)]

revealAllMines(g) ==
    [g EXCEPT !.Grid = [r \in 1..g.Rows |-> [c \in 1..g.Cols |->
                          IF g.Grid[r][c].Mine
                          THEN [g.Grid[r][c] EXCEPT !.State = Revealed]
                          ELSE g.Grid[r][c]]]]

checkWin(g) ==
    IF g.CellsRevealed = g.Rows * g.Cols - g.TotalMines
    THEN [g EXCEPT !.State = Won] ELSE g

\* Reveal after its early returns, on a grid whose mines are placed
revealPlaced(g, row, col) ==
    IF CellAt(g, row, col).Mine
    THEN revealAllMines([g EXCEPT !.State = Lost])
    ELSE checkWin(floodReveal(g, row, col))

\* Game.Reveal: the pairs <<game after the call, returned value>>
Reveal(g, row, col) ==
    IF ~inBounds(g, row, col) THEN {<<g, FALSE>>}
    ELSE IF CellAt(g, row, col).State \in {Revealed, Flagged}
    THEN {<<g, FALSE>>}
    ELSE IF g.State # Playing THEN {<<g, FALSE>>}
    ELSE IF g.FirstClick
    THEN {<<revealPlaced([p EXCEPT !.FirstClick = FALSE], row, col), TRUE>> :
            p \in placeMines(g, row, col)}
    ELSE {<<revealPlaced(g, row, col), TRUE>>}

\* Game.ToggleFlag
ToggleFlag(g, row, col) ==
    IF ~inBounds(g, row, col) \/ g.State # Playing THEN g
    ELSE IF CellAt(g, row, col).State = Hidden
    THEN [g EXCEPT !.Grid[row + 1][col + 1].State = Flagged,
                   !.FlagsUsed = g.FlagsUsed + 1]
    ELSE IF CellAt(g, row, col).State = Flagged
    THEN [g EXCEPT !.Grid[row + 1][col + 1].State = Hidden,
                   !.FlagsUsed = g.FlagsUsed - 1]
    ELSE g

\* NewGame(diff) for the scaled-down difficulty
MinesNewGame ==
    /\ mines' = [Grid |-> [r \in 1..MineRows |-> [c \in 1..MineCols |->
                             MineCell(FALSE, Hidden, 0)]],
                 Rows |-> MineRows, Cols |-> MineCols,
                 TotalMines |-> MineCount, FlagsUsed |-> 0,
                 CellsRevealed |-> 0, State |-> Playing, FirstClick |-> TRUE]
    /\ call' = Call("NewGame", <<>>, TRUE)
    /\ GamesBut("mines")

\* g.Reveal(row, col), one row and column beyond every edge included
MinesReveal ==
    /\ call.op # "none"
    /\ \E row \in -1..mines.Rows, col \in -1..mines.Cols :
         \E out \in Reveal(mines, row, col) :
            /\ mines' = out[1]
            /\ call' = Call("Reveal", <<row, col>>, out[2])
    /\ GamesBut("mines")

\* g.ToggleFlag(row, col), with at most MaxFlags flags set
MinesToggleFlag ==
    /\ call.op # "none"
    /\ \E row \in 0..(mines.Rows - 1), col \in 0..(mines.Cols - 1) :
         /\ \/ mines.FlagsUsed < MaxFlags
            \/ CellAt(mines, row, col).State = Flagged
         /\ mines' = ToggleFlag(mines, row, col)
         /\ call' = Call("ToggleFlag", <<row, col>>, TRUE)
    /\ GamesBut("mines")

InitMines == New(0, 0, <<>>, <<>>, OneGlyphPool)

NextMines == MinesNewGame \/ MinesReveal \/ MinesToggleFlag

SpecMines == InitMines /\ [][NextMines]_vars

-----------------------------------------------------------------------------
(* fifteenpuzzle.Game *)

boardSize == 4

\* the board holding the tiles of flat (indexed from 0) in row-major order
BoardOf(flat) ==
    [r \in 0..(boardSize - 1) |-> [c \in 0..(boardSize - 1) |->
       flat[r * boardSize + c]]]

\* isSolved: the tiles are 1..15 in order and the last cell is empty
isSolved(b) ==
    \A r \in 0..(boardSize - 1), c \in 0..(boardSize - 1) :
       b[r][c] = IF r = boardSize - 1 /\ c = boardSize - 1 THEN 0
                 ELSE r * boardSize + c + 1

\* countInversions over the tiles in row-major order, the empty cell left
\* out
countInversions(b) ==
    Cardinality({p \in (0..(boardSize * boardSize - 1)) \X
                       (0..(boardSize * boardSize - 1)) :
                   /\ p[1] < p[2]
                   /\ b[GoDiv(p[1], boardSize)][p[1] % boardSize] # 0
                   /\ b[GoDiv(p[2], boardSize)][p[2] % boardSize] # 0
                   /\ b[GoDiv(p[1], boardSize)][p[1] % boardSize]
                        > b[GoDiv(p[2], boardSize)][p[2] % boardSize]})

\* the row of the empty cell
EmptyRowOf(b) ==
    CHOOSE r \in 0..(boardSize - 1) : \E c \in 0..(boardSize - 1) : b[r][c] = 0

IsSolvable(b) ==
    IF (boardSize - EmptyRowOf(b)) % 2 = 1
    THEN countInversions(b) % 2 = 0
    ELSE countInversions(b) % 2 = 1

\* shuffle: the boards it can leave, here those that differ from the solved
\* board in the last ShuffledCells cells only
ShuffledBoards ==
    LET n == boardSize * boardSize
        tail == (n - ShuffledCells)..(n - 1)
        solved == [i \in 0..(n - 1) |-> IF i = n - 1 THEN 0 ELSE i + 1]
        perms == {f \in [tail -> {solved[i] : i \in tail}] :
                    \A i, j \in tail : i # j => f[i] # f[j]}
    IN {b \in {BoardOf([i \in 0..(n - 1) |->
                          IF i \in tail THEN f[i] ELSE solved[i]]) :
                 f \in perms} :
          IsSolvable(b) /\ ~isSolved(b)}

\* the game shuffle leaves with board b
Shuffled(b) ==
    [Board |-> b, EmptyRow |-> EmptyRowOf(b),
     EmptyCol |-> CHOOSE c \in 0..(boardSize - 1) : b[EmptyRowOf(b)][c] = 0,
     Moves |-> 0, Won |-> FALSE]

\* move without its check of Won
moveAfterWin(g, r, c) ==
    IF r < 0 \/ r >= boardSize \/ c < 0 \/ c >= boardSize
    THEN <<g, FALSE>>
    ELSE LET b == [g.Board EXCEPT ![g.EmptyRow][g.EmptyCol] = g.Board[r][c],
                                  ![r][c] = 0]
         IN <<[Board |-> b, EmptyRow |-> r, EmptyCol |-> c,
               Moves |-> g.Moves + 1, Won |-> g.Won \/ isSolved(b)], TRUE>>

\* Game.move(r, c): <<game after the call, returned value>>
move(g, r, c) ==
    IF g.Won THEN <<g, FALSE>> ELSE moveAfterWin(g, r, c)

\* MoveUp, MoveDown, MoveLeft, MoveRight: the cell each hands to move
MoveTarget(g, op) ==
    CASE op = "MoveUp" -> <<g.EmptyRow + 1, g.EmptyCol>>
      [] op = "MoveDown" -> <<g.EmptyRow - 1, g.EmptyCol>>
      [] op = "MoveLeft" -> <<g.EmptyRow, g.EmptyCol + 1>>
      [] op = "MoveRight" -> <<g.EmptyRow, g.EmptyCol - 1>>

MoveOps == {"MoveUp", "MoveDown", "MoveLeft", "MoveRight"}

\* NewGame()
PuzzleNewGame ==
    /\ call.op = "none"
    /\ \E b \in ShuffledBoards : puzzle' = Shuffled(b)
    /\ call' = Call("NewGame", <<>>, TRUE)
    /\ GamesBut("puzzle")

\* g.MoveUp(), g.MoveDown(), g.MoveLeft(), g.MoveRight(), at most
\* MaxPuzzleMoves of them on a board
PuzzleMove ==
    /\ call.op # "none"
    /\ puzzle.Moves < MaxPuzzleMoves
    /\ \E op \in MoveOps :
         LET t == MoveTarget(puzzle, op)
             out == move(puzzle, t[1], t[2])
         IN /\ puzzle' = out[1]
            /\ call' = Call(op, <<>>, out[2])
    /\ GamesBut("puzzle")

\* g.Reset()
PuzzleReset ==
    /\ call.op # "none"
    /\ \E b \in ShuffledBoards : puzzle' = Shuffled(b)
    /\ call' = Call("Reset", <<>>, TRUE)
    /\ GamesBut("puzzle")

InitPuzzle == New(0, 0, <<>>, <<>>, OneGlyphPool)

NextPuzzle == PuzzleNewGame \/ PuzzleMove \/ PuzzleReset

SpecPuzzle == InitPuzzle /\ [][NextPuzzle]_vars

-----------------------------------------------------------------------------
(* twofortyeight.Game; its boardSize is 4 as well *)

Up == 0
Down == 1
Left == 2
Right == 3

WinTile == 2048

Cols4 == 0..(boardSize - 1)

ZeroLine == [i \in Cols4 |-> 0]

\* step 1 of slideLine: the non-zero values moved to the front
compactLine(line) ==
    LET nz == SelectSeq([i \in 1..boardSize |-> line[i - 1]],
                        LAMBDA v : v # 0)
    IN [i \in Cols4 |-> IF i < Len(nz) THEN nz[i + 1] ELSE 0]

\* step 2 of slideLine without the skip of the merged partner
RECURSIVE mergeChained(_, _, _, _, _)
mergeChained(compact, i, ri, result, score) ==
    IF i >= boardSize \/ compact[i] = 0
    THEN [line |-> result, score |-> score]
    ELSE IF i + 1 < boardSize /\ compact[i] = compact[i + 1]
    THEN mergeChained(compact, i + 1, ri + 1,
                      [result EXCEPT ![ri] = compact[i] * 2],
                      score + compact[i] * 2)
    ELSE mergeChained(compact, i + 1, ri + 1,
                      [result EXCEPT ![ri] = compact[i]], score)

\* step 2 of slideLine: the loop from index i, writing result[ri]
RECURSIVE mergePairs(_, _, _, _, _)
mergePairs(compact, i, ri, result, score) ==
    IF i >= boardSize \/ compact[i] = 0
    THEN [line |-> result, score |-> score]
    ELSE IF i + 1 < boardSize /\ compact[i] = compact[i + 1]
    THEN mergePairs(compact, i + 2, ri + 1,
                    [result EXCEPT ![ri] = compact[i] * 2],
                    score + compact[i] * 2)
    ELSE mergePairs(compact, i + 1, ri + 1,
                    [result EXCEPT ![ri] = compact[i]], score)

\* slideLine merging a tile more than once
slideLineChained(line) == mergeChained(compactLine(line), 0, 0, ZeroLine, 0)

slideLine(line) == mergePairs(compactLine(line), 0, 0, ZeroLine, 0)

reverseLine(line) == [i \in Cols4 |-> line[boardSize - 1 - i]]

extractColumn(board, c) == [r \in Cols4 |-> board[r][c]]

\* the board after the loop of Move over its four lines, and the score the
\* loop adds
Slid(board, dir) ==
    CASE dir = Left ->
           [Board |-> [r \in Cols4 |-> slideLine(board[r]).line],
            Lines |-> [r \in Cols4 |-> slideLine(board[r])]]
      [] dir = Right ->
           [Board |-> [r \in Cols4 |->
                         reverseLine(slideLine(reverseLine(board[r])).line)],
            Lines |-> [r \in Cols4 |-> slideLine(reverseLine(board[r]))]]
      [] dir = Up ->
           [Board |-> [r \in Cols4 |-> [c \in Cols4 |->
                         slideLine(extractColumn(board, c)).line[r]]],
            Lines |-> [c \in Cols4 |-> slideLine(extractColumn(board, c))]]
      [] dir = Down ->
           [Board |-> [r \in Cols4 |-> [c \in Cols4 |->
                         reverseLine(slideLine(reverseLine(
                             extractColumn(board, c))).line)[r]]],
            Lines |-> [c \in Cols4 |->
                         slideLine(reverseLine(extractColumn(board, c)))]]

emptyCells(board) == {p \in Cols4 \X Cols4 : board[p[1]][p[2]] = 0}

\* SpawnTile: the boards it can leave
SpawnTile(board) ==
    IF emptyCells(board) = {} THEN {board}
    ELSE {[board EXCEPT ![p[1]][p[2]] = val] :
            p \in emptyCells(board), val \in {2, 4}}

CanMove(board) ==
    \E r \in Cols4, c \in Cols4 :
       \/ board[r][c] = 0
       \/ c + 1 < boardSize /\ board[r][c + 1] = board[r][c]
       \/ r + 1 < boardSize /\ board[r + 1][c] = board[r][c]

checkState(g) ==
    IF ~g.Won /\ ~g.Continued
       /\ \E r \in Cols4, c \in Cols4 : g.Board[r][c] = WinTile
    THEN [g EXCEPT !.Won = TRUE]
    ELSE IF ~CanMove(g.Board) THEN [g EXCEPT !.Over = TRUE] ELSE g

\* Game.Move(dir): the pairs <<game after the call, returned value>>
Move(g, dir) ==
    LET s == Slid(g.Board, dir)
        score == g.Score + s.Lines[0].score + s.Lines[1].score
                   + s.Lines[2].score + s.Lines[3].score
    IN IF s.Board # g.Board
       THEN {<<checkState([g EXCEPT !.Board = b, !.Score = score]), TRUE>> :
               b \in SpawnTile(s.Board)}
       ELSE {<<[g EXCEPT !.Score = score], FALSE>>}

\* the lines over the empty cell and the TileKinds smallest tiles
SmallLines ==
    [Cols4 -> {0} \cup {2 * 2 ^ (k - 1) : k \in 1..TileKinds}]

\* NewGame(): two tiles spawned on the empty board
TilesNewGame ==
    /\ call.op = "none"
    /\ \E b1 \in SpawnTile(ZeroTiles.Board) : \E b2 \in SpawnTile(b1) :
         tiles' = [ZeroTiles EXCEPT !.Board = b2]
    /\ call' = Call("NewGame", <<0>>, TRUE)
    /\ GamesBut("tiles")

\* a game set up with a board as the tests do (g.Board = board): one small
\* line in the top row, the same line or nothing in the row below it
TilesBoard ==
    /\ call.op = "none"
    /\ \E line \in SmallLines : \E below \in {ZeroLine, line} :
         tiles' = [ZeroTiles EXCEPT
                     !.Board = [r \in Cols4 |-> IF r = 0 THEN line
                                                ELSE IF r = 1 THEN below
                                                ELSE ZeroLine]]
    /\ call' = Call("Board", <<0>>, TRUE)
    /\ GamesBut("tiles")

\* g.Move(dir), at most MaxTileMoves times on a game; the call record counts
\* the moves made
TilesMove ==
    /\ call.op \in {"NewGame", "Board", "Move"}
    /\ call.arg[1] < MaxTileMoves
    /\ \E dir \in {Up, Down, Left, Right} :
         \E out \in Move(tiles, dir) :
            /\ tiles' = out[1]
            /\ call' = Call("Move", <<call.arg[1] + 1, dir>>, out[2])
    /\ GamesBut("tiles")

InitTiles == New(0, 0, <<>>, <<>>, OneGlyphPool)

NextTiles == TilesNewGame \/ TilesBoard \/ TilesMove

SpecTiles == InitTiles /\ [][NextTiles]_vars

\* a source text one glyph wider than the one-column screen: 'I' is laid out
\* at x = 1, outside the grid
InitOffGrid == New(NarrowW, ScreenH, SourceHI, TargetCol, OneGlyphPool)

\* ticks alone on that screen, the tick chain firing and spawning fair
FairOffGrid ==
    /\ InitOffGrid /\ [][NextTicks]_vars
    /\ WF_vars(Tick)
    /\ \A x \in 0..(NarrowW - 1) : SF_vars(SpawnAt(x))

-----------------------------------------------------------------------------
(* app.Model: the top-level model that owns the splash, the transition and
   the menu.  The splash art and the menu text are replaced by the short
   texts of the one-column scenario. *)

\* the grid of a transition.Model that New has not built: a nil *CellGrid
NilGrid == [Width |-> 0 - 1, Height |-> 0 - 1, Cells |-> <<>>]

\* app.New(): the splash screen active, the transition its zero value
InitApp ==
    /\ active = screenSplash
    /\ width = 0 /\ height = 0
    /\ phase = PhaseDissolve
    /\ grid = NilGrid
    /\ columns = <<>>
    /\ charPool = {}
    /\ splashCells = <<>> /\ menuCells = <<>>
    /\ splashLookup = {}
    /\ depositOrder = <<>>
    /\ dissolvedCount = 0 /\ depositedCount = 0
    /\ phaseElapsed = 0
    /\ draining = FALSE /\ done = FALSE
    /\ lastMsg = "init" /\ cmd = "none" /\ pending = 0
    /\ fault = FALSE /\ ticks = 0
    /\ position = 0 /\ color = <<>>
    /\ GamesIdle

\* app Update, tea.WindowSizeMsg: forwarded to the transition in every
\* screen; transition Update calls m.grid.Resize, which reads g.Width and so
\* dereferences the nil grid while the transition is not constructed
AppWindowSize ==
    IF grid = NilGrid
    THEN /\ ~fault /\ cmd # "quit"
         /\ fault' = TRUE
         /\ lastMsg' = "resize"
         /\ UNCHANGED <<width, height, phase, grid, columns, charPool,
                        splashCells, menuCells, dissolvedCount, splashLookup,
                        depositedCount, depositOrder, phaseElapsed, draining,
                        done, cmd, pending, ticks, position, color, apps>>
    ELSE WindowSizeMsg(ResizeDims)

\* app Update, tea.KeyMsg other than ctrl+c: on the splash screen it builds
\* the transition with transition.New(m.width, m.height, ...) and returns
\* its Init command; m.width and m.height are still zero there, no
\* window-size event having been survived.  On the transition screen the key
\* is routed to the transition.
AppKey ==
    \/ /\ active = screenSplash
       /\ ~fault /\ cmd # "quit"
       /\ active' = screenTransition
       /\ width' = 0 /\ height' = 0
       /\ phase' = PhaseDissolve
       /\ splashCells' = computePositions(SourceCol, 0, 0)
       /\ menuCells' = computePositions(TargetCol, 0, 0)
       /\ grid' = PaintSplash(NewCellGrid(0, 0),
                              computePositions(SourceCol, 0, 0))
       /\ columns' = <<>>
       /\ charPool' = OneGlyphPool
       /\ splashLookup' = {<<c.X, c.Y>> :
                             c \in {computePositions(SourceCol, 0, 0)[i] :
                                      i \in DOMAIN computePositions(SourceCol, 0, 0)}}
       /\ depositOrder' \in Shuffles(Len(computePositions(TargetCol, 0, 0)))
       /\ dissolvedCount' = 0 /\ depositedCount' = 0
       /\ phaseElapsed' = 0
       /\ draining' = FALSE /\ done' = FALSE
       /\ lastMsg' = "key" /\ cmd' = "tick" /\ pending' = 1
       /\ UNCHANGED <<fault, ticks, position, color, games>>
    \/ /\ active = screenTransition
       /\ KeyInput

\* app Update, the transition's tickMsg while the transition screen is active
AppTick == active = screenTransition /\ Tick

NextApp == AppWindowSize \/ AppKey \/ AppTick \/ CtrlC

SpecApp == InitApp /\ [][NextApp]_vars

\* a pool of two glyphs, so that spawned and mutated trail characters differ
TwoGlyphPool == {65382, 65383}

\* ticks alone on the one-column screen with the two-glyph pool
InitGlyphs == New(NarrowW, ScreenH, SourceCol, TargetCol, TwoGlyphPool)

SpecGlyphs == InitGlyphs /\ [][NextTicks]_vars


\* the controller one tick after New, that tick having spawned at x = 0 a
\* column of the fastest whole speed: the column is as SpawnColumn returned
\* it, and no trail has been written to the grid yet
InitFast ==
    /\ width = NarrowW
    /\ height = ScreenH
    /\ phase = PhaseDissolve
    /\ splashCells = computePositions(SourceCol, NarrowW, ScreenH)
    /\ menuCells = computePositions(TargetCol, NarrowW, ScreenH)
    /\ grid = PaintSplash(NewCellGrid(NarrowW, ScreenH), splashCells)
    /\ columns \in {<<SpawnColumn(0, <<d[1], d[2], FastSpeed>>)>> :
                       d \in SpawnDraws(ScreenH)}
    /\ charPool = OneGlyphPool
    /\ splashLookup = {<<splashCells[i].X, splashCells[i].Y>> :
                          i \in DOMAIN splashCells}
    /\ depositOrder \in Shuffles(Len(menuCells))
    /\ dissolvedCount = 0
    /\ depositedCount = 0
    /\ phaseElapsed \in 1..DtCap
    /\ draining = FALSE
    /\ done = FALSE
    /\ lastMsg = "tick"
    /\ cmd = "tick"
    /\ pending = 1
    /\ fault = FALSE
    /\ ticks = 1
    /\ position = 0
    /\ color = <<>>
    /\ active = screenTransition
    /\ GamesIdle

SpecFast == InitFast /\ [][NextTicks]_vars


\* Column.Update with the glyph draws fixed: pool.Random() returns the same
\* glyph every time and mutate replaces nothing
UpdateStill(c, dt) ==
    Update(c, dt, height,
           [i \in 1..(2 * MaxAdvance) |-> CHOOSE g \in charPool : TRUE],
           [i \in 1..Max(height, 0) |-> <<>>])

\* one column followed under two divisions of the same elapsed time:
\* columns[1] is updated once per step with t1 + t2, columns[2] is updated
\* with t1 and then with t2
SplitSpawn ==
    /\ columns = <<>> /\ ~SpawnPanics(height)
    /\ \E draw \in SpawnDraws(height) :
          columns' = <<SpawnColumn(0, draw), SpawnColumn(0, draw)>>
    /\ lastMsg' = "spawn"
    /\ UNCHANGED <<width, height, phase, grid, charPool, splashCells,
                   menuCells, dissolvedCount, splashLookup, depositedCount,
                   depositOrder, phaseElapsed, draining, done, cmd, pending,
                   fault, ticks, position, color, apps>>

SplitUpdate ==
    /\ Len(columns) = 2
    /\ ~(IsDead(columns[1]) /\ IsDead(columns[2]))
    /\ \E t1, t2 \in 1..DtCap :
          columns' = <<UpdateStill(columns[1], t1 + t2),
                       UpdateStill(UpdateStill(columns[2], t1), t2)>>
    /\ lastMsg' = "update"
    /\ UNCHANGED <<width, height, phase, grid, charPool, splashCells,
                   menuCells, dissolvedCount, splashLookup, depositedCount,
                   depositOrder, phaseElapsed, draining, done, cmd, pending,
                   fault, ticks, position, color, apps>>

NextSplit == SplitSpawn \/ SplitUpdate

SpecSplit == InitRain /\ [][NextSplit]_vars


\* computePositions called on its own: every text of up to LayoutLen runes
\* over a letter, a space, a line break and a fullwidth letter, on the
\* screens of ConstructDims
LayoutTexts == UNION {[1..k -> {72, SP, NL, 65313}] : k \in 0..LayoutLen}

LayoutCall ==
    /\ call.op = "none"
    /\ \E text \in LayoutTexts, d \in ConstructDims :
          call' = Call("computePositions", <<text, d[1], d[2]>>,
                       computePositions(text, d[1], d[2]))
    /\ GamesBut("none")

InitLayout == New(0, 0, <<>>, <<>>, OneGlyphPool)

NextLayout == LayoutCall

SpecLayout == InitLayout /\ [][NextLayout]_vars

-----------------------------------------------------------------------------
(* Properties *)

\* the coordinates probed around and inside the largest grid
ProbeX == -1..(ScreenW + 1)
ProbeY == -1..(ScreenH + 1)

InGrid(x, y) == x >= 0 /\ x < grid.Width /\ y >= 0 /\ y < grid.Height

\* C1: the phase only moves forward through Dissolve, Reveal, Drain, Done;
\* a tick advances it by at most one phase, and only a key input takes it
\* to Done from Dissolve or Reveal.
PhaseForward ==
    [][/\ phase' >= phase
       /\ lastMsg' = "tick" => phase' <= phase + 1
       /\ (phase' = PhaseDone /\ phase < PhaseDrain) => lastMsg' = "key"]_vars

\* a run that went through every phase by ticks: Done reached from Drain
PhaseForwardWitness ==
    phase = PhaseDone /\ draining /\ lastMsg = "tick" /\ pending = 0

\* C2: a key input other than ctrl+c leaves phase = Done and Done() true as
\* the result of that Update call, whatever the phase, counters and columns.
KeySkips == lastMsg = "key" => (phase = PhaseDone /\ Done)

\* a key handled during Dissolve with live columns and cells left
KeySkipsWitness ==
    /\ lastMsg = "key"
    /\ dissolvedCount < Len(splashCells)
    /\ columns # <<>>
    /\ Done

\* the target placements that lie inside the grid
TargetsInGrid == {i \in DOMAIN menuCells : InGrid(menuCells[i].X, menuCells[i].Y)}

\* the cell at target placement i is deposited with its designated glyph
DepositedAt(i) ==
    LET c == Get(grid, menuCells[i].X, menuCells[i].Y)
    IN /\ c.State = CellDeposited
       /\ c.Char = menuCells[i].Char
       /\ c.TargetChar = menuCells[i].Char

\* C3: with no key input and no resize, under repeated ticks with positive
\* elapsed time and fair spawning, the scenario whose placements all lie
\* inside the grid passes through Reveal and Drain and reaches Done.
ScenarioCompletes ==
    /\ (phase = PhaseDissolve) ~> (phase = PhaseReveal)
    /\ (phase = PhaseReveal) ~> (phase = PhaseDrain)
    /\ (phase = PhaseDrain) ~> (phase = PhaseDone /\ Done)

\* the scenario has run to completion by ticks
ScenarioCompletesWitness ==
    /\ phase = PhaseDone /\ Done /\ lastMsg = "tick"
    /\ dissolvedCount = 2 /\ depositedCount = 3

\* C4: when Done is reached through Drain, with no key input and no resize,
\* no column is live and every target placement inside the grid is a
\* Deposited cell holding its designated glyph as glyph and target glyph.
DrainedDoneComplete ==
    phase = PhaseDone =>
        /\ columns = <<>>
        /\ \A i \in TargetsInGrid : DepositedAt(i)

\* Done reached by drain completion with the three target cells in the grid
DrainedDoneWitness ==
    /\ phase = PhaseDone /\ lastMsg = "tick"
    /\ Cardinality(TargetsInGrid) = 3
    /\ \A i \in TargetsInGrid : DepositedAt(i)

TickInDoneNoOp ==
    [][(phase = PhaseDone /\ lastMsg' = "tick") =>
          /\ grid' = grid
          /\ columns' = columns
          /\ dissolvedCount' = dissolvedCount
          /\ depositedCount' = depositedCount
          /\ phase' = phase
          /\ cmd' = "none"]_vars

\* C7: after a degenerate construction no tick, resize or key input faults.
DegenerateNeverFaults == ~fault

\* C8: a controller constructed with zero width or zero height has zero
\* source and target totals, so its first tick leaves Dissolve.
ZeroScreenZeroTotals ==
    /\ (lastMsg = "init" /\ (width = 0 \/ height = 0)) =>
           (Len(splashCells) = 0 /\ Len(menuCells) = 0)
    /\ ticks >= 1 => phase # PhaseDissolve

\* C9 as stated: with empty texts and ticks alone, Done is reached on the
\* first or second tick.
EmptyDoneBySecondTick == ticks >= 2 => phase = PhaseDone

\* C9, amended: with empty texts and ticks alone the first tick leaves the
\* phase Reveal and the second Drain; Done is reached no earlier than the
\* third tick, by the first tick handled in Drain that finds no live column,
\* and no column is live then.
EmptyDoneFromThirdTick ==
    /\ ticks = 1 => phase = PhaseReveal
    /\ ticks = 2 => phase = PhaseDrain
    /\ phase = PhaseDone => (ticks >= 3 /\ columns = <<>> /\ Done)
    /\ (ticks >= 3 /\ phase = PhaseDrain) => columns # <<>>

\* Done on the third tick, and Done after columns had to drain first
EmptyDoneWitness ==
    /\ phase = PhaseDone /\ ticks >= 3 /\ columns = <<>>
    /\ width = ScreenW /\ height = ScreenH

\* the cell slices have the dimensions the grid records, so that an access
\* inside the bounds is an access inside the slices
WellFormed(g) ==
    /\ DOMAIN g.Cells = 0..(g.Height - 1)
    /\ \A y \in DOMAIN g.Cells : DOMAIN g.Cells[y] = 0..(g.Width - 1)

\* C10: outside the bounds Get returns the empty cell and Set changes
\* nothing; inside, Get after Set returns the written cell and every other
\* cell and both dimensions are unchanged; no access leaves the slices.
GridBoundsSafe ==
    /\ WellFormed(grid)
    /\ \A x \in ProbeX, y \in ProbeY, c \in ProbeCells :
          LET g2 == Set(grid, x, y, c)
          IN IF InGrid(x, y)
             THEN /\ Get(g2, x, y) = c
                  /\ g2.Width = grid.Width /\ g2.Height = grid.Height
                  /\ WellFormed(g2)
                  /\ \A x2 \in ProbeX, y2 \in ProbeY :
                        <<x2, y2>> # <<x, y>> =>
                            Get(g2, x2, y2) = Get(grid, x2, y2)
             ELSE /\ Get(grid, x, y) = EmptyCell
                  /\ g2 = grid

\* a tick has written a trail whose column lies outside the resized grid
GridBoundsWitness ==
    /\ lastMsg = "tick"
    /\ grid.Width > 0
    /\ \E i \in DOMAIN columns : \E j \in DOMAIN columns[i].Trail :
          ~InGrid(columns[i].X, columns[i].Trail[j].Y)
    /\ \E x \in ProbeX, y \in ProbeY : Get(grid, x, y).State = CellRain

\* C11: after Resize(newW, newH) the grid is newW x newH, every cell inside
\* both the old and the new bounds keeps its value, and every cell inside
\* the new bounds only is the empty cell, whether the resize grows, shrinks
\* or grows one dimension and shrinks the other.
ResizeKeepsOverlap ==
    [][lastMsg' = "resize" =>
          /\ grid'.Width = width' /\ grid'.Height = height'
          /\ WellFormed(grid')
          /\ \A x \in 0..(width' - 1), y \in 0..(height' - 1) :
                IF x < grid.Width /\ y < grid.Height
                THEN grid'.Cells[y][x] = grid.Cells[y][x]
                ELSE grid'.Cells[y][x] = EmptyCell]_vars

\* a resized grid of two columns and one row that kept a written cell next
\* to an empty one
ResizeKeepsOverlapWitness ==
    /\ lastMsg = "resize"
    /\ grid.Width = GridMax /\ grid.Height = 1
    /\ grid.Cells[0][0].State = CellDeposited
    /\ grid.Cells[0][1] = EmptyCell

\* C12: after every Column.Update call, whether the column is growing,
\* starts draining in that call or is draining, the trail is no longer
\* than MaxTrailLen.
TrailWithinMax ==
    \A i \in DOMAIN columns : Len(columns[i].Trail) <= columns[i].MaxTrailLen

\* a growing column whose oldest character has been trimmed away
TrailWithinMaxWitness ==
    /\ lastMsg = "update" /\ columns # <<>>
    /\ ~columns[1].Draining
    /\ Len(columns[1].Trail) = columns[1].MaxTrailLen
    /\ columns[1].Trail[1].Y > 0

\* C13: IsDead is true exactly when the column is draining and its trail is
\* empty; a column returned by SpawnColumn is not dead, and a dead column
\* has its head at or below the bottom of the screen.
DeadIffDrained ==
    \A i \in DOMAIN columns :
        /\ IsDead(columns[i]) <=>
               (columns[i].Draining /\ Len(columns[i].Trail) = 0)
        /\ lastMsg = "spawn" => ~IsDead(columns[i])
        /\ IsDead(columns[i]) => columns[i].HeadY >= height

\* a column that has drained completely
DeadIffDrainedWitness ==
    /\ lastMsg = "update" /\ columns # <<>>
    /\ IsDead(columns[1])

\* C14: over the Update calls of a column Draining goes from false to true
\* at most once and never back, HeadY never decreases, and HeadY does not
\* change once Draining is true.
DrainingOneWay ==
    [][(columns # <<>> /\ columns' # <<>>) =>
          /\ columns[1].Draining => columns'[1].Draining
          /\ columns'[1].HeadY >= columns[1].HeadY
          /\ columns[1].Draining =>
                 columns'[1].HeadY = columns[1].HeadY]_vars

\* a draining column that has already lost a part of its trail
DrainingOneWayWitness ==
    /\ lastMsg = "update" /\ columns # <<>>
    /\ columns[1].Draining
    /\ columns[1].Trail # <<>>
    /\ columns[1].Trail[1].Y > height - columns[1].MaxTrailLen

\* the glyphs of a text that are neither spaces nor line breaks
NonSpaceGlyphs(t) == Cardinality({i \in DOMAIN t : t[i] # SP /\ t[i] # NL})

\* the coordinates of the grid holding a cell in state st
CellsInState(st) ==
    {xy \in (0..(grid.Width - 1)) \X (0..(grid.Height - 1)) :
        grid.Cells[xy[2]][xy[1]].State = st}

\* the margins around the block of placements cells differ by at most one
\* column and one row
Centred(cells) ==
    LET left == CHOOSE a \in {cells[i].X : i \in DOMAIN cells} :
                    \A i \in DOMAIN cells : a <= cells[i].X
        right == CHOOSE a \in {cells[i].X + runeWidth(cells[i].Char) :
                                  i \in DOMAIN cells} :
                    \A i \in DOMAIN cells :
                        a >= cells[i].X + runeWidth(cells[i].Char)
        top == CHOOSE a \in {cells[i].Y : i \in DOMAIN cells} :
                    \A i \in DOMAIN cells : a <= cells[i].Y
        bottom == CHOOSE a \in {cells[i].Y + 1 : i \in DOMAIN cells} :
                    \A i \in DOMAIN cells : a >= cells[i].Y + 1
    IN /\ (width - right) - left \in {-1, 0, 1}
       /\ (height - bottom) - top \in {-1, 0, 1}

\* C15: right after construction, when every source placement lies inside
\* the grid, the grid holds one SourceText cell per glyph of the source
\* text that is not a space, at the centred placements, and every other
\* cell is empty; on the 20 x 6 screen "HI" gives 'H' at (9,2) and 'I' at
\* (10,2) and nothing else.
ConstructionPaintsSource ==
    lastMsg = "init" =>
      \A t \in ConstructTexts :
        (/\ splashCells = computePositions(t, width, height)
         /\ \A i \in DOMAIN splashCells :
               InGrid(splashCells[i].X, splashCells[i].Y)) =>
            /\ Cardinality(CellsInState(CellSplash)) = NonSpaceGlyphs(t)
            /\ \A i \in DOMAIN splashCells :
                  Get(grid, splashCells[i].X, splashCells[i].Y) =
                      Cell(splashCells[i].Char, CellSplash, 0, 0)
            /\ \A xy \in (0..(grid.Width - 1)) \X (0..(grid.Height - 1)) :
                  xy \notin CellsInState(CellSplash) =>
                      grid.Cells[xy[2]][xy[1]] = EmptyCell
            /\ (t # <<>> /\ \A i \in DOMAIN t : t[i] # SP) =>
                  Centred(splashCells)
            /\ (width = 20 /\ height = 6 /\ t = SourceHI) =>
                  /\ CellsInState(CellSplash) = {<<9, 2>>, <<10, 2>>}
                  /\ grid.Cells[2][9].Char = 72
                  /\ grid.Cells[2][10].Char = 73

\* the scenario's construction: "HI" painted on the 20 x 6 screen
ConstructionPaintsSourceWitness ==
    /\ lastMsg = "init" /\ width = 20 /\ height = 6
    /\ Len(splashCells) = 2
    /\ Get(grid, 9, 2).State = CellSplash
    /\ Get(grid, 10, 2).Char = 73

\* C16: the dissolved counter never decreases and never exceeds the number
\* of source cells; the phase becomes Reveal, with the phase timer reset,
\* in exactly the tick handled in Dissolve in which the counter reaches
\* that number, and never while the counter is below it.
DissolveCounts ==
    [][/\ dissolvedCount' >= dissolvedCount
       /\ dissolvedCount' <= Len(splashCells)
       /\ (phase = PhaseDissolve /\ phase' = PhaseDissolve) =>
              dissolvedCount' < Len(splashCells)
       /\ (phase # PhaseReveal /\ phase' = PhaseReveal) =>
              /\ phase = PhaseDissolve /\ lastMsg' = "tick"
              /\ dissolvedCount < Len(splashCells)
              /\ dissolvedCount' = Len(splashCells)
              /\ phaseElapsed' = 0
       /\ (phase = PhaseDissolve /\ lastMsg' = "tick"
              /\ dissolvedCount' = Len(splashCells)) =>
              phase' = PhaseReveal]_vars

\* the tick that dissolved the last of the two source cells
DissolveCountsWitness ==
    /\ lastMsg = "tick" /\ phase = PhaseReveal
    /\ Len(splashCells) = 2 /\ dissolvedCount = 2
    /\ depositedCount = 0 /\ phaseElapsed = 0

DrainSpawnsNothing ==
    [][(phase = PhaseDrain /\ lastMsg' = "tick") =>
          /\ Len(columns') <= Len(columns)
          /\ \A i \in DOMAIN columns' : \E j \in DOMAIN columns :
                /\ columns'[i].X = columns[j].X
                /\ columns'[i].MaxTrailLen = columns[j].MaxTrailLen
                /\ columns'[i].Speed = columns[j].Speed
                /\ columns'[i].HeadY >= columns[j].HeadY]_vars

\* a tick handled in Drain has left a draining column behind, next to a
\* position where no column is live
DrainSpawnsNothingWitness ==
    /\ lastMsg = "tick" /\ phase = PhaseDrain /\ phaseElapsed > 0
    /\ Len(columns) = 1 /\ width = ScreenW

\* C19: a resize event changes the width, the height and the grid buffer,
\* which keeps the overlapping region; the phase, the done flag, both
\* counters, the placements, the lookup set, the deposit order and the live
\* columns are unchanged, and no tick is scheduled by it.
ResizeFrame ==
    [][lastMsg' = "resize" =>
          /\ UNCHANGED <<phase, done, dissolvedCount, depositedCount,
                         splashCells, menuCells, splashLookup, depositOrder,
                         columns>>
          /\ cmd' = "none" /\ pending' = pending
          /\ grid'.Width = width' /\ grid'.Height = height'
          /\ \A x \in ProbeX, y \in ProbeY :
                (InGrid(x, y) /\ x < width' /\ y < height') =>
                    Get(grid', x, y) = Get(grid, x, y)]_vars

\* a resize to a lower screen handled in Reveal while a column is live
ResizeFrameWitness ==
    /\ lastMsg = "resize" /\ phase = PhaseReveal
    /\ height < ScreenH /\ grid.Height = height
    /\ columns # <<>> /\ dissolvedCount > 0

\* the value of the k-th two-digit channel of a "#RRGGBB" colour
HexValue(d) == CHOOSE v \in 0..15 : HexDigits[v + 1] = d

Channel(c, k) == 16 * HexValue(c[2 * k]) + HexValue(c[2 * k + 1])

\* C20: TrailColor(0) is exactly #DCFFDC, TrailColor(1) is exactly #003C0F,
\* and over the positions fadePosition/100, fadePosition in 0..100, the
\* red, green and blue channels never increase as the position increases.
TrailColorFades ==
    [][lastMsg' = "view" =>
          /\ position' = 0 => color' = <<"#", "D", "C", "F", "F", "D", "C">>
          /\ position' = 100 => color' = <<"#", "0", "0", "3", "C", "0", "F">>
          /\ (lastMsg = "view" /\ position' > position) =>
                \A k \in 1..3 : Channel(color', k) <= Channel(color, k)]_vars

\* position 0.12, where red is 44 exactly and float64 arithmetic gives 43
TrailColorFadesWitness ==
    /\ lastMsg = "view" /\ position = 12
    /\ Channel(color, 1) = 43

\* the four games the score store has a slot for
StoredGames == {"yahtzee", "blackjack", "wordle", "2048"}

\* C21: an Update that returned true set a new high score: Get(game) then
\* returns the value passed, for every game name the app passes.
UpdateTrueIsStored ==
    (call.op = "Update" /\ call.ret)
        => StoreGet(store, call.arg[1]) = {Entry(call.arg[2])}

\* restricted to the games with a slot, Update is right: true stores the
\* value, false leaves an entry that the value does not beat
UpdateOnStoredGames ==
    [][\A g \in StoredGames, v \in 0..MaxScore, lower \in BOOLEAN :
         call' = Call("Update", <<g, v, lower>>, call'.ret)
           => IF call'.ret
              THEN /\ StoreGet(store', g) = {Entry(v)}
                   /\ ~NotBetter(StoreGet(store, g), v, lower)
              ELSE /\ store' = store
                   /\ NotBetter(StoreGet(store, g), v, lower)]_vars

\* C22: after any SetDirection calls made between two ticks of a playing
\* game, the Tick is not made in the direction opposite to the previous
\* Tick's move, so the head is never aimed back at the neck.
NoReversal ==
    [][(call'.op = "Tick" /\ snake.State = StatePlaying /\ LastMove # NoDir)
          => snake.Dir # Opposite(LastMove)]_vars

\* whatever the calls between two ticks, the head never ends up displaced
\* against the previous move: the Tick aimed at the neck ends the game
ReversalEndsGame ==
    [][(call'.op = "Tick" /\ snake.State = StatePlaying /\ LastMove # NoDir
        /\ snake.Dir = Opposite(LastMove))
          => /\ snake'.State = StateGameOver
             /\ snake'.Snake = snake.Snake]_vars

\* C23: in a game that is over, Tick and SetDirection change nothing: the
\* segments, direction, food, score and state are those before the call.
GameOverNoOp ==
    [][(snake.State = StateGameOver /\ call'.op \in {"Tick", "SetDirection"})
          => snake' = snake]_vars

GameOverNoOpWitness ==
    /\ snake.State = StateGameOver
    /\ call.op = "SetDirection" /\ call.arg = <<DirLeft>>
    /\ snake.Dir = DirRight
    /\ snake.Score = 1

\* the cells of a Minesweeper game that hold a mine
MinedCells(g) == {p \in GridCells(g) : CellAt(g, p[1], p[2]).Mine}

\* what the first click is promised: exactly TotalMines mines afterwards,
\* none on the clicked cell or its neighbours, the game not lost and
\* FirstClick false
FirstClickSafe(g, row, col) ==
    /\ Cardinality(MinedCells(g)) = g.TotalMines
    /\ \A p \in MinedCells(g) : \/ p[1] - row \notin {-1, 0, 1}
                               \/ p[2] - col \notin {-1, 0, 1}
    /\ g.State # Lost
    /\ ~g.FirstClick

\* C24 as stated: after the first Reveal of a new game, whatever its
\* arguments, the mines are placed, the game is not lost and FirstClick is
\* false.
FirstRevealPlacesMines ==
    [][\A row \in -1..MineRows, col \in -1..MineCols :
         (mines.FirstClick /\ call'.op = "Reveal" /\ call'.arg = <<row, col>>)
           => FirstClickSafe(mines', row, col)]_vars

\* C24: no mine is on the grid while FirstClick is true; the first Reveal
\* that is accepted (an in-bounds cell that is not flagged) places exactly
\* TotalMines mines, none on the clicked cell or its neighbours, reveals the
\* clicked cell and leaves the game not lost with FirstClick false; a
\* rejected Reveal changes nothing, and later calls never move a mine.
FirstAcceptedRevealSafe ==
    [][/\ mines'.FirstClick => MinedCells(mines') = {}
       /\ \A row \in -1..MineRows, col \in -1..MineCols :
            (mines.FirstClick /\ call'.op = "Reveal"
             /\ call'.arg = <<row, col>>)
              => IF call'.ret
                 THEN /\ FirstClickSafe(mines', row, col)
                      /\ CellAt(mines', row, col).State = Revealed
                 ELSE mines' = mines
       /\ (~mines.FirstClick /\ call'.op # "NewGame")
            => MinedCells(mines') = MinedCells(mines)]_vars

FirstAcceptedRevealSafeWitness ==
    /\ call = Call("Reveal", <<0, 0>>, TRUE)
    /\ ~mines.FirstClick
    /\ mines.State = Playing
    /\ mines.FlagsUsed = 1
    /\ MinedCells(mines) = {<<0, 3>>, <<1, 3>>}
    /\ CellAt(mines, 0, 0).State = Revealed

\* the board is a permutation of 0..15 with the blank at (EmptyRow, EmptyCol)
PuzzleWellFormed(g) ==
    /\ \A v \in 0..(boardSize * boardSize - 1) :
         Cardinality({p \in (0..(boardSize - 1)) \X (0..(boardSize - 1)) :
                        g.Board[p[1]][p[2]] = v}) = 1
    /\ g.EmptyRow \in 0..(boardSize - 1) /\ g.EmptyCol \in 0..(boardSize - 1)
    /\ g.Board[g.EmptyRow][g.EmptyCol] = 0

\* C25: a puzzle started by NewGame or Reset is solvable, not solved, with
\* no move counted; after every move the board is a permutation of 0..15
\* with the blank at (EmptyRow, EmptyCol) and is solvable, Moves has grown by
\* one exactly when the move returned true, and a move made once Won is true
\* returns false and changes nothing.
PuzzleStaysSolvable ==
    [][/\ call'.op \in {"NewGame", "Reset"}
            => /\ IsSolvable(puzzle'.Board) /\ ~isSolved(puzzle'.Board)
               /\ puzzle'.Moves = 0 /\ ~puzzle'.Won
               /\ PuzzleWellFormed(puzzle')
       /\ call'.op \in MoveOps
            => /\ PuzzleWellFormed(puzzle')
               /\ IsSolvable(puzzle'.Board)
               /\ puzzle'.Moves = puzzle.Moves + (IF call'.ret THEN 1 ELSE 0)
               /\ puzzle'.Won = isSolved(puzzle'.Board)
               /\ puzzle.Won => (~call'.ret /\ puzzle' = puzzle)]_vars

PuzzleStaysSolvableWitness ==
    /\ puzzle.Won /\ puzzle.Moves = 3
    /\ call = Call("MoveDown", <<>>, FALSE)

\* the cells of line k in the order a move in direction dir meets them,
\* the cell the tiles slide towards first
TravelOrder(dir, k) ==
    CASE dir = Left -> [i \in 1..boardSize |-> <<k, i - 1>>]
      [] dir = Right -> [i \in 1..boardSize |-> <<k, boardSize - i>>]
      [] dir = Up -> [i \in 1..boardSize |-> <<i - 1, k>>]
      [] dir = Down -> [i \in 1..boardSize |-> <<boardSize - i, k>>]

\* each tile merged at most once: the first two tiles merge when equal and
\* the rest is merged on its own
RECURSIVE PairedOnce(_)
PairedOnce(ts) ==
    IF Len(ts) = 0 THEN <<>>
    ELSE IF Len(ts) >= 2 /\ ts[1] = ts[2]
    THEN <<ts[1] + ts[2]>> \o PairedOnce(SubSeq(ts, 3, Len(ts)))
    ELSE <<ts[1]>> \o PairedOnce(SubSeq(ts, 2, Len(ts)))

RECURSIVE SumSeq(_)
SumSeq(ts) == IF ts = <<>> THEN 0 ELSE ts[1] + SumSeq(Tail(ts))

\* the tiles of line k of board b in travel order, empty cells left out
TilesOf(b, dir, k) ==
    SelectSeq([i \in 1..boardSize |->
                 b[TravelOrder(dir, k)[i][1]][TravelOrder(dir, k)[i][2]]],
              LAMBDA v : v # 0)

\* board b with every line slid in direction dir, each tile merged at most
\* once
Expected(b, dir) ==
    [r \in Cols4 |-> [c \in Cols4 |->
       LET k == IF dir \in {Left, Right} THEN r ELSE c
           i == CHOOSE j \in 1..boardSize : TravelOrder(dir, k)[j] = <<r, c>>
           ts == PairedOnce(TilesOf(b, dir, k))
       IN IF i <= Len(ts) THEN ts[i] ELSE 0]]

\* the sum of the values of the tiles of ts that merge
RECURSIVE MergedSum(_)
MergedSum(ts) ==
    IF Len(ts) < 2 THEN 0
    ELSE IF ts[1] = ts[2]
    THEN ts[1] + ts[2] + MergedSum(SubSeq(ts, 3, Len(ts)))
    ELSE MergedSum(SubSeq(ts, 2, Len(ts)))

\* the values of the tiles that merge in a move of board b in direction dir
MergedValue(b, dir) ==
    MergedSum(TilesOf(b, dir, 0)) + MergedSum(TilesOf(b, dir, 1))
      + MergedSum(TilesOf(b, dir, 2)) + MergedSum(TilesOf(b, dir, 3))

\* C26: a Move slides every line with each tile merged at most once, keeps
\* the sum of each line's tiles, adds the values of the merged tiles to
\* Score, and spawns one tile (2 or 4) on an empty cell exactly when the
\* slide changed the board, which is the value it returns.
MoveMergesOnce ==
    [][\A dir \in {Up, Down, Left, Right} :
         (call'.op = "Move" /\ call'.arg[2] = dir)
           => LET e == Expected(tiles.Board, dir)
              IN /\ \A k \in Cols4 :
                      SumSeq(TilesOf(e, dir, k))
                        = SumSeq(TilesOf(tiles.Board, dir, k))
                 /\ tiles'.Score = tiles.Score + MergedValue(tiles.Board, dir)
                 /\ call'.ret = (e # tiles.Board)
                 /\ IF e = tiles.Board
                    THEN tiles'.Board = tiles.Board
                    ELSE \E p \in Cols4 \X Cols4 :
                           /\ e[p[1]][p[2]] = 0
                           /\ tiles'.Board[p[1]][p[2]] \in {2, 4}
                           /\ \A q \in (Cols4 \X Cols4) \ {p} :
                                tiles'.Board[q[1]][q[2]] = e[q[1]][q[2]]]_vars

MoveMergesOnceWitness ==
    /\ call = Call("Move", <<1, Left>>, TRUE)
    /\ tiles.Board[0] = [i \in Cols4 |-> IF i < 2 THEN 4 ELSE 0]
    /\ tiles.Board[1] = [i \in Cols4 |-> IF i < 2 THEN 4 ELSE 0]
    /\ tiles.Score = 16
    /\ tiles.Board[3][3] = 2

\* C27: handling ctrl+c, in any phase, leaves the phase, the done flag, the
\* grid, the columns and the counters as they were and returns the quit
\* command.
CtrlCNotASkip ==
    [][lastMsg' = "ctrl+c"
          => /\ cmd' = "quit"
             /\ UNCHANGED <<phase, done, grid, columns, dissolvedCount,
                            depositedCount, phaseElapsed, draining, width,
                            height>>]_vars

CtrlCNotASkipWitness ==
    /\ lastMsg = "ctrl+c" /\ cmd = "quit"
    /\ phase = PhaseReveal /\ ~done
    /\ columns # <<>>
    /\ depositedCount = 1

\* C28: under repeated ticks with positive elapsed time and fair spawning,
\* the Dissolve phase ends, also for a source text with glyphs laid out
\* outside the grid: the phase becomes Reveal.
DissolveEnds == (phase = PhaseDissolve) ~> (phase = PhaseReveal)

\* on that screen the dissolved counter stops short of the total: the glyph
\* outside the grid is counted in the total and never dissolved
OffGridNeverDissolved ==
    /\ phase = PhaseDissolve
    /\ dissolvedCount < Len(splashCells)
    /\ \E i \in DOMAIN splashCells : ~InGrid(splashCells[i].X, splashCells[i].Y)

\* C29: a window-size event handled by the app is forwarded to the
\* sub-models in every screen, also on the splash screen where the
\* transition's grid is absent, and completes without a fault, the active
\* screen unchanged.
WindowSizeForwarded ==
    [][lastMsg' = "resize" => (~fault' /\ active' = active)]_vars

\* once the transition is constructed the event is handled: the constructed
\* grid is resized and the active screen is unchanged
WindowSizeAfterConstruction ==
    [][(lastMsg' = "resize" /\ grid # NilGrid)
          => /\ ~fault' /\ active' = active
             /\ grid'.Width = width' /\ grid'.Height = height']_vars

\* the trail characters of the columns cols that lie at (x, y), as pairs of
\* column index and trail index
Covering(cols, x, y) ==
    {p \in (DOMAIN cols) \X (1..ColumnH) :
       /\ p[2] <= Len(cols[p[1]].Trail)
       /\ cols[p[1]].X = x
       /\ cols[p[1]].Trail[p[2]].Y = y}

\* C30: after a tick the rain layer is the projection of the live trails:
\* an in-grid cell is Rain or Dissolving exactly when a trail character of a
\* live column lies on it and the cell is not Deposited; it carries that
\* character's glyph, and it is Dissolving exactly when it held source text
\* before the tick.
RainIsProjection ==
    [][(lastMsg' = "tick" /\ ~fault')
          => \A x \in 0..(width - 1), y \in 0..(height - 1) :
               LET c == Get(grid', x, y)
                   on == Covering(columns', x, y)
               IN /\ c.State \in {CellRain, CellDissolving}
                       <=> (on # {} /\ c.State # CellDeposited)
                  /\ c.State \in {CellRain, CellDissolving}
                       => /\ \E p \in on :
                               c.Char = columns'[p[1]].Trail[p[2]].Char
                          /\ (c.State = CellDissolving)
                               <=> (Get(grid, x, y).State = CellSplash)]_vars

RainIsProjectionWitness ==
    /\ lastMsg = "tick" /\ ~fault
    /\ Get(grid, 0, 0).State = CellRain /\ Get(grid, 0, 0).Char = 65383
    /\ Get(grid, 0, 1).State = CellDissolving /\ Get(grid, 0, 1).Char = 65382
    /\ Get(grid, 0, 2).State = CellSplash
    /\ Covering(columns, 0, 1) # {}


\* the in-grid cells that still show source text
SourceTextCells ==
    {<<x, y>> \in ProbeX \X ProbeY :
        InGrid(x, y) /\ Get(grid, x, y).State = CellSplash}

\* C31: in every state reached by ticks alone while the phase is Dissolve,
\* an in-grid cell is in state SourceText exactly when its coordinate is
\* still in the source lookup set, and the dissolved counter is the number
\* of source cells minus the size of the lookup set; the counter rises by
\* exactly the coordinates a tick removes, so none is counted twice; once
\* the phase is Reveal or Drain no in-grid SourceText cell remains.
LookupMirrorsSource ==
    /\ [](/\ phase = PhaseDissolve =>
              /\ SourceTextCells =
                     {k \in splashLookup : InGrid(k[1], k[2])}
              /\ dissolvedCount =
                     Len(splashCells) - Cardinality(splashLookup)
          /\ phase \in {PhaseReveal, PhaseDrain} => SourceTextCells = {})
    /\ [][phase = PhaseDissolve =>
            /\ splashLookup' \subseteq splashLookup
            /\ dissolvedCount' - dissolvedCount =
                   Cardinality(splashLookup \ splashLookup')]_vars

\* a tick in Dissolve that dissolved one of the two source cells and left
\* the other one on the grid and in the lookup set
LookupMirrorsSourceWitness ==
    /\ lastMsg = "tick" /\ phase = PhaseDissolve
    /\ Len(splashCells) = 2 /\ dissolvedCount = 1
    /\ Cardinality(splashLookup) = 1
    /\ Cardinality(SourceTextCells) = 1


\* the grid coordinates of the deposit-order entries lo..hi
OrderCoords(lo, hi) ==
    {<<menuCells[depositOrder[k]].X, menuCells[depositOrder[k]].Y>> :
        k \in lo..hi}

\* the in-grid cells in state Deposited
DepositedCells ==
    {<<x, y>> \in ProbeX \X ProbeY :
        InGrid(x, y) /\ Get(grid, x, y).State = CellDeposited}

\* C32: the deposit order is a permutation of the target-placement
\* indices and never changes; the cells a tick deposits are exactly the
\* placements of the order's entries depositedCount+1 .. depositedCount',
\* which are distinct, so the placements written so far are the first
\* depositedCount entries of the order, each written once, none skipped.
DepositsFollowOrder ==
    /\ [](/\ DOMAIN depositOrder = 1..Len(menuCells)
          /\ \A i \in 1..Len(menuCells) :
                 \E k \in 1..Len(menuCells) : depositOrder[k] = i
          /\ \A j, k \in 1..Len(menuCells) :
                 depositOrder[j] = depositOrder[k] => j = k
          /\ depositedCount \in 0..Len(menuCells)
          /\ DepositedCells \subseteq OrderCoords(1, depositedCount))
    /\ [][/\ depositOrder' = depositOrder
          /\ depositedCount' >= depositedCount
          /\ lastMsg' = "tick" =>
               /\ DepositedCells' \ DepositedCells \subseteq
                      OrderCoords(depositedCount + 1, depositedCount')
               /\ \A c \in OrderCoords(depositedCount + 1, depositedCount') :
                      InGrid(c[1], c[2]) => c \in DepositedCells'
               /\ Cardinality(OrderCoords(depositedCount + 1,
                                          depositedCount')) =
                      depositedCount' - depositedCount]_vars

\* a tick in Reveal that wrote the first entry of an order which is not
\* the identity, the other placement not yet written
DepositsFollowOrderWitness ==
    /\ lastMsg = "tick" /\ phase = PhaseReveal
    /\ depositedCount = 1 /\ Len(menuCells) = 2
    /\ depositOrder = <<2, 1>>
    /\ DepositedCells = OrderCoords(1, 1)


\* the rows of a column's trail, oldest first
TrailRows(c) == [i \in 1..Len(c.Trail) |-> c.Trail[i].Y]

\* seq without its first k elements
DropOldest(seq, k) == SubSeq(seq, k + 1, Len(seq))

\* C33: after any sequence of Column.Update calls with a fixed
\* screenHeight the trail holds consecutive rows increasing by 1, oldest
\* first, all within [0, screenHeight); while the column is not draining
\* the newest row is HeadY - 1 and the trail is empty exactly while the
\* head has not passed row 0; an update of a draining column leaves a
\* suffix of the trail, and an update of a growing column leaves a suffix
\* of the old rows followed by the rows the head passed.
TrailConsecutive ==
    /\ [](columns # <<>> =>
            LET c == columns[1]
                n == Len(c.Trail)
            IN /\ \A i \in 1..n : c.Trail[i].Y >= 0 /\ c.Trail[i].Y < height
               /\ \A i \in 1..(n - 1) : c.Trail[i + 1].Y = c.Trail[i].Y + 1
               /\ ~c.Draining =>
                     /\ n > 0 => c.Trail[n].Y = c.HeadY - 1
                     /\ n = 0 <=> c.HeadY < 1)
    /\ [][(columns # <<>> /\ lastMsg' = "update") =>
            LET c == columns[1]
                d == columns'[1]
                old == TrailRows(c)
                new == TrailRows(d)
                passed == [i \in 1..(d.HeadY - Max(c.HeadY, 0)) |->
                               Max(c.HeadY, 0) + i - 1]
            IN IF c.Draining
               THEN \E k \in 0..Len(old) : d.Trail = DropOldest(c.Trail, k)
               ELSE \E k \in 0..(Len(old) + Len(passed)) :
                        new = DropOldest(old \o passed, k)]_vars

\* a draining column that grew to its full trail and has since lost rows
\* at the oldest end only: the bottom row is still its newest
TrailConsecutiveWitness ==
    /\ columns # <<>> /\ lastMsg = "update"
    /\ LET c == columns[1]
       IN /\ c.Draining /\ Len(c.Trail) > 0
          /\ c.Trail[Len(c.Trail)].Y = height - 1
          /\ c.Trail[1].Y > height - c.MaxTrailLen


\* the rows in [0, height) that a head moving from row from to row to passes
PassedRows(from, to) == {y \in 0..(height - 1) : y >= from /\ y < to}

\* C34: with dt capped at 0.1 s and speeds below 25 rows/s, a growing
\* column advances at most 3 rows in one tick, fewer than the smallest
\* MaxTrailLen (4); every in-grid row its head passes in a tick is in its
\* trail when that tick ends, and in Dissolve the source cell on such a row
\* has left the lookup set; so no source cell above a live column's head
\* is still in the lookup set.
NoRowSkipped ==
    /\ [](\A i \in DOMAIN columns :
            /\ columns[i].MaxTrailLen >= MinTrailFloor
            /\ \A y \in PassedRows(0, columns[i].HeadY) :
                   <<columns[i].X, y>> \notin splashLookup)
    /\ [][lastMsg' = "tick" =>
            \A i \in DOMAIN columns : \A j \in DOMAIN columns' :
                (columns[i].X = columns'[j].X /\ ~columns[i].Draining) =>
                    LET c == columns[i]
                        d == columns'[j]
                    IN /\ c.Accumulator < AccOne
                       /\ d.HeadY - c.HeadY <= 3
                       /\ d.HeadY - c.HeadY < MinTrailFloor
                       /\ \A y \in PassedRows(c.HeadY, d.HeadY) :
                            /\ \E k \in DOMAIN d.Trail : d.Trail[k].Y = y
                            /\ <<d.X, y>> \notin splashLookup']_vars

\* a tick in which the fast column passed three rows, two of them holding
\* the source cells: both were first covered, and dissolved, in this tick
NoRowSkippedWitness ==
    /\ lastMsg = "tick" /\ columns # <<>>
    /\ columns[1].Speed = FastSpeed
    /\ columns[1].HeadY = 4
    /\ Get(grid, 0, 1).State = CellDissolving
    /\ Get(grid, 0, 2).State = CellDissolving
    /\ Get(grid, 0, 3).State = CellRain
    /\ dissolvedCount = 2 /\ splashLookup = {}


\* what the motion of a column leaves behind, glyphs aside
Motion(c) == <<c.HeadY, c.Draining, TrailRows(c)>>

\* C35: column motion is independent of how time is divided into Update
\* calls: after the same total elapsed time the column updated in whole
\* steps and the column updated in split steps have the same HeadY,
\* Draining flag and trail rows, also when the head reaches the bottom of
\* the screen within a step.
SameMotion == Len(columns) = 2 => Motion(columns[1]) = Motion(columns[2])

\* the two divisions agree as long as neither column has reached the
\* bottom of the screen: same motion and same accumulator
SameMotionWhileGrowing ==
    (Len(columns) = 2 /\ ~columns[1].Draining) =>
        /\ Motion(columns[1]) = Motion(columns[2])
        /\ columns[1].Accumulator = columns[2].Accumulator

\* a whole step that took the head to the bottom and kept a row of
\* movement in the accumulator, which the split steps spent on draining
LeftoverAtBottom ==
    /\ Len(columns) = 2 /\ lastMsg = "update"
    /\ columns[1].Draining /\ columns[1].Accumulator >= AccOne
    /\ columns[2].Draining /\ columns[2].Accumulator < AccOne
    /\ Len(columns[2].Trail) < Len(columns[1].Trail)


\* trail character j of column c is still in the trail of u
Survives(c, j, u) == \E k \in DOMAIN u.Trail : u.Trail[k].Y = c.Trail[j].Y

\* trail character j of column c is in the trail of u with another glyph
Replaced(c, j, u) ==
    \E k \in DOMAIN u.Trail :
        u.Trail[k].Y = c.Trail[j].Y /\ u.Trail[k].Char # c.Trail[j].Char

\* every trail character of c that an Update with the capped dt can leave
\* in the trail can also come out of that Update with another pool glyph
MayMutate(c) ==
    \A dt \in 1..DtCap :
        LET outs == UpdateOutcomes(c, dt, height, charPool)
        IN \A j \in DOMAIN c.Trail :
              (\E u \in outs : Survives(c, j, u)) =>
                  (\E u \in outs : Replaced(c, j, u))

\* C36: glyph mutation is independent of growth and drain: in every
\* Column.Update, whether the column is growing or draining, each existing
\* trail character may be replaced by a pool glyph.
MutationInEveryUpdate == \A i \in DOMAIN columns : MayMutate(columns[i])

\* the Update of a growing column may replace each trail character it keeps
MutationWhileGrowing ==
    \A i \in DOMAIN columns : ~columns[i].Draining => MayMutate(columns[i])

\* a draining column comes out of Update with the glyphs it had: every
\* character left in the trail is unchanged
DrainKeepsGlyphs ==
    \A i \in DOMAIN columns :
        columns[i].Draining =>
            \A dt \in 1..DtCap :
            \A u \in UpdateOutcomes(columns[i], dt, height, charPool) :
            \A k \in DOMAIN u.Trail :
                \E j \in DOMAIN columns[i].Trail :
                    u.Trail[k] = columns[i].Trail[j]


\* the runes of text that are placed: neither a line break nor a space
GlyphsOf(text) == {i \in DOMAIN text : text[i] # NL /\ text[i] # SP}

\* the line breaks of text before rune i
BreaksBefore(text, i) == {j \in 1..(i - 1) : text[j] = NL}

\* the index of the first rune of the line rune i is on
LineStart(text, i) ==
    IF BreaksBefore(text, i) = {} THEN 1
    ELSE 1 + CHOOSE j \in BreaksBefore(text, i) :
                 \A k \in BreaksBefore(text, i) : k <= j

\* the summed widths of the runes a..b of text
RECURSIVE SumWidths(_, _, _)
SumWidths(text, a, b) ==
    IF a > b THEN 0 ELSE runeWidth(text[a]) + SumWidths(text, a + 1, b)

\* the widths of the lines of text: a line ends before a line break or at
\* the end of the text
LineWidths(text) ==
    {SumWidths(text, LineStart(text, e), e - 1) :
        e \in {j \in DOMAIN text : text[j] = NL} \cup {Len(text) + 1}}

\* the placement the layout rule gives rune i of text on a w x h screen
Placement(text, w, h, i) ==
    LET lineCount == Cardinality(BreaksBefore(text, Len(text) + 1)) + 1
        maxLineWidth == CHOOSE m \in LineWidths(text) :
                            \A n \in LineWidths(text) : n <= m
    IN CellPos(GoDiv(w - maxLineWidth, 2)
                   + SumWidths(text, LineStart(text, i), i - 1),
               GoDiv(h - lineCount, 2)
                   + Cardinality(BreaksBefore(text, i)),
               text[i])

\* C37: computePositions(text, width, height) returns one placement per
\* non-space glyph in line-major, left-to-right order, the glyph on line r
\* at y = (height - lineCount) / 2 + r and x = (width - maxLineWidth) / 2 +
\* the summed widths of the runes before it on its line (integer division
\* as Go divides), a space advancing the cursor by 1 and a double-width
\* glyph by 2; no two placements share a coordinate.
LayoutPlacements ==
    call.op = "computePositions" =>
        LET text == call.arg[1]
            ret == call.ret
        IN /\ Len(ret) = Cardinality(GlyphsOf(text))
           /\ \A i \in GlyphsOf(text) :
                 ret[Cardinality({j \in GlyphsOf(text) : j <= i})] =
                     Placement(text, call.arg[2], call.arg[3], i)
           /\ \A i \in DOMAIN text :
                 SumWidths(text, i, i) =
                     IF text[i] = 65313 THEN 2 ELSE 1
           /\ \A k, l \in DOMAIN ret :
                 (ret[k].X = ret[l].X /\ ret[k].Y = ret[l].Y) => k = l

\* a fullwidth letter, a space and a letter laid out on one line of the
\* 20 x 6 screen: the letter lands three columns after the fullwidth one
LayoutPlacementsWitness ==
    /\ call.op = "computePositions"
    /\ call.arg = <<(<<65313, SP, 72>>), 20, 6>>
    /\ call.ret = <<CellPos(8, 2, 65313), CellPos(11, 2, 72)>>


\* C38: no two live columns have the same X; a column that a step adds
\* stands at an x in [0, width) that no surviving column occupies, so a
\* grid cell lies under the trail of at most one column when the rain is
\* repainted.
OneColumnPerX ==
    /\ [](/\ \A i, j \in DOMAIN columns :
                columns[i].X = columns[j].X => i = j
          /\ \A i, j \in DOMAIN columns :
             \A k \in DOMAIN columns[i].Trail :
             \A l \in DOMAIN columns[j].Trail :
                (columns[i].X = columns[j].X
                    /\ columns[i].Trail[k].Y = columns[j].Trail[l].Y) =>
                        (i = j /\ k = l))
    /\ [][\A j \in DOMAIN columns' :
             \/ columns'[j].X \in {columns[i].X : i \in DOMAIN columns}
             \/ /\ lastMsg' = "tick" /\ ~draining
                /\ columns'[j].X \in 0..(width - 1)
                /\ columns'[j].Trail = <<>>]_vars

\* two live columns side by side, the second spawned in a later tick next
\* to the first, which already has a trail
OneColumnPerXWitness ==
    /\ lastMsg = "tick" /\ Len(columns) = 2
    /\ columns[1].X # columns[2].X
    /\ columns[1].Trail # <<>> /\ columns[2].Trail = <<>>


\* C39: Init schedules one tick; a handled tick schedules one follow-up
\* tick unless the phase after it is Done, and then none; key inputs and
\* resizes schedule none; so at most one tick is pending at any time, and
\* none once a tick has been handled in phase Done.
TickChain ==
    /\ [](/\ pending \in {0, 1}
          /\ lastMsg = "init" => (pending = 1 /\ cmd = "tick")
          /\ (lastMsg = "tick" /\ phase = PhaseDone /\ ~fault) =>
                 pending = 0)
    /\ [][/\ (lastMsg' = "tick" /\ ~fault') =>
               /\ pending = 1
               /\ cmd' = IF phase' = PhaseDone THEN "none" ELSE "tick"
               /\ pending' = IF phase' = PhaseDone THEN 0 ELSE 1
          /\ lastMsg' \in {"key", "resize", "ctrl+c"} =>
               /\ cmd' # "tick"
               /\ pending' = pending]_vars

\* the tick pending at a key skip has been handled in Done and has
\* scheduled no successor
TickChainWitness ==
    /\ lastMsg = "tick" /\ phase = PhaseDone /\ ~draining
    /\ pending = 0 /\ cmd = "none"


\* C40: in every reachable controller state Done() is true exactly when
\* the phase is Done, under any interleaving of ticks, key inputs and
\* resizes.
DoneIffPhaseDone == Done <=> phase = PhaseDone

\* completion reached by ticks alone, through Drain, and kept over a
\* resize that followed
DoneIffPhaseDoneWitness ==
    /\ lastMsg = "resize" /\ draining /\ depositedCount = Len(menuCells)
    /\ phase = PhaseDone /\ Done

====
